---- MODULE Spec2Model ----
(***************************************************************************)
(* Verification model of the ai-db-agent core:                             *)
(*   - the execute endpoint   (src/app/api/ai/execute/route.js)            *)
(*   - the action validator   (lib/debug.js, src/unnamed/part_000)         *)
(*   - the schema cache       (lib/dbIntrospect.js, src/unnamed/part_001)  *)
(*   - the model orchestrator (src/lib/ai.js, Gemini -> OpenAI variant)    *)
(*   - the translate endpoint (src/app/api/ai/route.js) with the Ollama    *)
(*     variant of lib/ai.js   (src/unnamed/part_002)                       *)
(* JavaScript values are modelled as tagged records so that truthiness,    *)
(* strict equality and Object.keys behave as they do in the source.        *)
(***************************************************************************)
EXTENDS Integers, Sequences, FiniteSets, TLC

VARIABLES
    \* ---- execute endpoint -------------------------------------------------
    pc,         \* position of the request handler
    req,        \* the parsed request body {uri, action}
    sort,       \* action.options.sort as the handler currently holds it
    client,     \* the handler's `client` variable: "null" | "connected" | "closed"
    opened,     \* connections opened by this request
    closeCalls, \* client.close() invocations of this request
    dbCalls,    \* operations issued to the collection, in order
    warnings,   \* fields for which console.warn reported an auto-fixed sort
    validation, \* the handler's `validation` result, or NoValidation
    response,   \* the Response returned, or NoResponse
    \* ---- schema cache (lib/dbIntrospect.js) ------------------------------
    dbMetadataCache, \* the module-level cache {data, timestamp}
    clock,      \* Date.now(), in milliseconds
    calls,      \* the getCachedDBMetadata invocations in progress, per caller
    scans,      \* scanDatabase invocations started (each opens a connection)
    produced,   \* snapshots produced by completed scans
    cleared,    \* ids of the snapshots a clearDBMetadataCache call removed
    storedAt,   \* the clock when the cached snapshot was stored, 0 if none is
    overtaken,  \* the callers whose scan was in flight when the cache was cleared
    \* ---- model orchestrator (lib/ai.js, Gemini -> OpenAI) ----------------
    env,        \* process.env: which API keys are set
    orchPc,     \* position of parseUserInstruction
    attempt,    \* parseWithGemini's loop variable
    lastError,  \* parseWithGemini's lastError
    geminiError,\* the error caught from parseWithGemini
    orchResult, \* what parseUserInstruction returned or threw
    geminiLog,  \* outcome of every model.generateContent call, in order
    openaiLog,  \* outcome of every chat.completions.create call, in order
    waits,      \* the delays passed to setTimeout, in order
    \* ---- validateAction called on its own --------------------------------
    vInput,     \* the argument of the call
    vOutcome,   \* what the call produced: a result, or a thrown TypeError
    \* ---- translate endpoint and lib/ai.js (Ollama) -----------------------
    tPc,        \* position of the request handler
    tReq,       \* the parsed request body
    schemaUsed, \* whether collectionSchemas was filled from the metadata
    inflight,   \* the fetch the handler is awaiting, if any
    fetches,    \* the urls fetched by this request, in order
    probe,      \* how the probe of /api/tags ended
    completion, \* what the generate request resolved with
    parseResult,\* what parseUserInstruction returned or threw
    tValidation,\* the handler's `validation` result, or NoValidation
    tResponse,  \* the Response returned, or NoTranslateResponse
    \* ---- scanDatabase and inferSchema (lib/dbIntrospect.js) --------------
    scanPc,     \* position of scanDatabase
    scanClient, \* scanDatabase's `client` variable: "null" | "connected" | "closed"
    collections,\* what db.listCollections().toArray() resolved with
    colIndex,   \* how many collections the for loop has been through
    dbInfo,     \* the entries pushed so far
    analysed,   \* for every collection gone through, how its analysis ended
    scanReturn, \* what scanDatabase returned or threw
    documents,  \* the argument of an inferSchema call
    schema,     \* what the inferSchema call returned
    \* ---- parseJSONResponse on raw text (lib/ai.js, Ollama) ---------------
    written,    \* how the raw text came about: the payload and its wrapping
    rawText,    \* the argument of the parseJSONResponse call
    candidate,  \* the text handed to the repair step
    normalized  \* what the call returned or threw

execVars == <<pc, req, sort, client, opened, closeCalls, dbCalls, warnings, validation, response>>

cacheVars == <<dbMetadataCache, clock, calls, scans, produced, cleared, storedAt,
              overtaken>>

orchVars ==
    <<env, orchPc, attempt, lastError, geminiError, orchResult, geminiLog, openaiLog, waits>>

valVars == <<vInput, vOutcome>>

trVars ==
    <<tPc, tReq, schemaUsed, inflight, fetches, probe, completion, parseResult, tValidation,
      tResponse>>

scanVars == <<scanPc, scanClient, collections, colIndex, dbInfo, analysed, scanReturn>>

inferVars == <<documents, schema>>

normVars == <<written, rawText, candidate, normalized>>

vars == <<execVars, cacheVars, orchVars, valVars, trVars, scanVars, inferVars, normVars>>

\* what the execute endpoint leaves alone
notExecVars ==
    <<cacheVars, orchVars, valVars, trVars, scanVars, inferVars, normVars>>
\* what the schema cache leaves alone
notCacheVars ==
    <<execVars, orchVars, valVars, trVars, scanVars, inferVars, normVars>>
\* what the orchestrator leaves alone
notOrchVars ==
    <<execVars, cacheVars, valVars, trVars, scanVars, inferVars, normVars>>
\* what a call of validateAction leaves alone
notValVars ==
    <<execVars, cacheVars, orchVars, trVars, scanVars, inferVars, normVars>>
\* what a scan leaves alone
notScanVars ==
    <<execVars, cacheVars, orchVars, valVars, trVars, inferVars, normVars>>
\* what a call of inferSchema leaves alone
notInferVars ==
    <<execVars, cacheVars, orchVars, valVars, trVars, scanVars, normVars>>
\* what a call of parseJSONResponse leaves alone
notNormVars == <<execVars, cacheVars, orchVars, valVars, trVars, scanVars, inferVars>>
\* what the translate endpoint leaves alone
notTrVars ==
    <<execVars, cacheVars, orchVars, valVars, scanVars, inferVars, normVars>>

(***************************************************************************)
(* JavaScript values                                                       *)
(***************************************************************************)
\* t: typeof-like tag, keys: Object.keys(value), v: numeric payload
JsUndefined == [t |-> "undefined", keys |-> {}, v |-> 0]
JsNull      == [t |-> "null", keys |-> {}, v |-> 0]
JsObject(ks) == [t |-> "object", keys |-> ks, v |-> 0]
JsArray(ks) == [t |-> "array", keys |-> ks, v |-> 0]
JsNumber(n) == [t |-> "number", keys |-> {}, v |-> n]
JsString(ks) == [t |-> "string", keys |-> ks, v |-> 0]

\* ToBoolean(value): undefined, null, 0 and "" are falsy
Truthy(x) ==
    CASE x.t = "undefined" -> FALSE
      [] x.t = "null"      -> FALSE
      [] x.t = "number"    -> x.v # 0
      [] x.t = "string"    -> x.keys # {}
      [] OTHER             -> TRUE

\* Object.keys(value).length
ObjectKeysLength(x) == Cardinality(x.keys)

(***************************************************************************)
(* Requests of the execute endpoint                                        *)
(***************************************************************************)
\* action.action: "" stands for an absent or empty (falsy) field
ActionNames == {"", "find", "insert", "update", "delete", "aggregate", "drop"}
\* action.collection: "" stands for an absent or empty (falsy) field
CollectionNames == {"", "users"}
\* action.query
QueryValues ==
    { JsUndefined, JsNull, JsObject({}), JsObject({"age"}), JsArray({}),
      JsNumber(5), JsString({"0"}) }
\* action.insert and action.pipeline
InsertValues == {JsUndefined, JsObject({"name"}), JsArray({"0"})}
PipelineValues == {JsUndefined, JsArray({"0"}), JsObject({"$match"})}

\* one entry of options.sort: numbers and the string "1"
SortNumber(n) == [t |-> "number", v |-> n]
SortString(n) == [t |-> "string", v |-> n]
SortEntryValues == {SortNumber(1), SortNumber(-1), SortNumber(0), SortString(1)}
SortFields == {"name", "age"}
EmptyMap == [f \in {} |-> SortNumber(1)]
\* options.sort: absent, null, a string, or a map field -> value
SortUndefined == [t |-> "undefined", m |-> EmptyMap]
SortNull == [t |-> "null", m |-> EmptyMap]
SortText == [t |-> "string", m |-> EmptyMap]
SortMap(m) == [t |-> "object", m |-> m]
SortMaps == UNION { [fs -> SortEntryValues] : fs \in SUBSET SortFields }
SortValues == {SortUndefined, SortNull, SortText} \cup { SortMap(m) : m \in SortMaps }

\* the action objects a caller may send; options is "undefined" or "object"
Actions ==
    { [action |-> n, collection |-> c, query |-> q, insert |-> i, pipeline |-> p,
       options |-> "object", sort |-> s] :
        n \in ActionNames, c \in CollectionNames, q \in QueryValues,
        i \in InsertValues, p \in PipelineValues, s \in SortValues }
    \cup
    { [action |-> n, collection |-> c, query |-> q, insert |-> i, pipeline |-> p,
       options |-> "undefined", sort |-> SortUndefined] :
        n \in ActionNames, c \in CollectionNames, q \in QueryValues,
        i \in InsertValues, p \in PipelineValues }
NoAction ==
    [action |-> "", collection |-> "", query |-> JsUndefined, insert |-> JsUndefined,
     pipeline |-> JsUndefined, options |-> "undefined", sort |-> SortUndefined]
\* uri: "" stands for an absent or empty (falsy) field
Uris == {"", "mongodb://a"}
Requests ==
    { [uri |-> u, hasAction |-> TRUE, action |-> a] : u \in Uris, a \in Actions }
    \cup { [uri |-> u, hasAction |-> FALSE, action |-> NoAction] : u \in Uris }

NoResponse == [status |-> 0, ok |-> FALSE, error |-> <<>>]
Respond(status, ok, error) == [status |-> status, ok |-> ok, error |-> error]

(***************************************************************************)
(* validateAction (lib/debug.js)                                           *)
(***************************************************************************)
validActions == {"find", "insert", "update", "delete", "aggregate"}
DeleteBlocked == "Delete without query would delete entire collection - BLOCKED"
UpdateBlocked == "Update without query would update entire collection - BLOCKED"

\* !action.query || Object.keys(action.query).length === 0
QueryMissing(q) == (~Truthy(q)) \/ ObjectKeysLength(q) = 0

\* a faulty variant: the update rule is dropped
validateActionNoUpdateRule(action) ==
    LET e1 == IF action.action = "" THEN <<"Missing 'action' field">> ELSE <<>>
        e2 == IF action.collection = "" THEN <<"Missing 'collection' field">> ELSE <<>>
        e3 == IF action.action # "" /\ action.action \notin validActions
              THEN <<"Invalid action">> ELSE <<>>
        e4 == IF action.action = "delete" /\ QueryMissing(action.query)
              THEN <<DeleteBlocked>> ELSE <<>>
        errors == e1 \o e2 \o e3 \o e4
    IN  [valid |-> Len(errors) = 0, errors |-> errors]

\* a faulty variant: the action name is not checked against validActions
validateActionOpenEnum(action) ==
    LET e1 == IF action.action = "" THEN <<"Missing 'action' field">> ELSE <<>>
        e2 == IF action.collection = "" THEN <<"Missing 'collection' field">> ELSE <<>>
        e4 == IF action.action = "delete" /\ QueryMissing(action.query)
              THEN <<DeleteBlocked>> ELSE <<>>
        e5 == IF action.action = "update" /\ QueryMissing(action.query)
              THEN <<UpdateBlocked>> ELSE <<>>
        e6 == IF action.action = "insert" /\ ~Truthy(action.insert)
              THEN <<"Insert action missing 'insert' field (payload)">> ELSE <<>>
        e7 == IF action.action = "aggregate" /\ action.pipeline.t # "array"
              THEN <<"Aggregate action must have 'pipeline' array">> ELSE <<>>
        errors == e1 \o e2 \o e4 \o e5 \o e6 \o e7
    IN  [valid |-> Len(errors) = 0, errors |-> errors]

validateAction(action) ==
    LET e1 == IF action.action = "" THEN <<"Missing 'action' field">> ELSE <<>>
        e2 == IF action.collection = "" THEN <<"Missing 'collection' field">> ELSE <<>>
        e3 == IF action.action # "" /\ action.action \notin validActions
              THEN <<"Invalid action">> ELSE <<>>
        e4 == IF action.action = "delete" /\ QueryMissing(action.query)
              THEN <<DeleteBlocked>> ELSE <<>>
        e5 == IF action.action = "update" /\ QueryMissing(action.query)
              THEN <<UpdateBlocked>> ELSE <<>>
        e6 == IF action.action = "insert" /\ ~Truthy(action.insert)
              THEN <<"Insert action missing 'insert' field (payload)">> ELSE <<>>
        e7 == IF action.action = "aggregate" /\ action.pipeline.t # "array"
              THEN <<"Aggregate action must have 'pipeline' array">> ELSE <<>>
        errors == e1 \o e2 \o e3 \o e4 \o e5 \o e6 \o e7
    IN  [valid |-> Len(errors) = 0, errors |-> errors]

(***************************************************************************)
(* The execute endpoint: POST (app/api/ai/execute/route.js)                *)
(***************************************************************************)
NoValidation == [valid |-> FALSE, errors |-> <<"not validated">>]

(***************************************************************************)
(* validateAction called with any JavaScript value                         *)
(***************************************************************************)
\* an argument: t is its type; action holds its properties when it is an
\* object.  Reading a property of a number, string or boolean yields
\* undefined, so a primitive has the properties of NoAction.
ValidatorInput(t, a) == [t |-> t, action |-> a]
ValidatorInputs ==
    { ValidatorInput(t, NoAction) : t \in {"null", "undefined", "number", "string", "boolean"} }
    \cup { ValidatorInput("object", a) : a \in { b \in Actions : b.options = "undefined" } }

NotCalled == [called |-> FALSE, threw |-> FALSE, result |-> NoValidation]
\* line 23: `action.action` is read first, and reading a property of null or
\* undefined throws a TypeError; otherwise the rules run to the return
validateActionCall(input) ==
    IF input.t \in {"null", "undefined"}
    THEN [called |-> TRUE, threw |-> TRUE, result |-> NoValidation]
    ELSE [called |-> TRUE, threw |-> FALSE, result |-> validateAction(input.action)]

\* one call of validateAction
ValidateCall ==
    /\ ~vOutcome.called
    /\ vInput' \in ValidatorInputs
    /\ vOutcome' = validateActionCall(vInput')
    /\ UNCHANGED notValVars

NextValidate == ValidateCall

\* entries of options.sort whose value is neither 1 nor -1 (strict equality)
invalidSorts(s) == { f \in DOMAIN s.m : s.m[f] # SortNumber(1) /\ s.m[f] # SortNumber(-1) }

\* a faulty variant: the auto-fix loop writes the old value back
AutoFixSortKeepsValue(s) == s

\* the auto-fix loop: action.options.sort[field] = 1 for every invalid entry
AutoFixSort(s) ==
    SortMap([f \in DOMAIN s.m |-> IF f \in invalidSorts(s) THEN SortNumber(1) ELSE s.m[f]])

\* `action.options && action.options.sort`
SortPresent(a) == a.options = "object" /\ a.sort.t \in {"object", "string"}

\* a call issued to the collection
DbCall(op, query, sortMap) == [op |-> op, query |-> query, sort |-> sortMap]
\* `action.query || {}`
QueryOrEmpty(q) == IF Truthy(q) THEN q ELSE JsObject({})
\* `(action.options && action.options.sort) || {}`
SortOrEmpty(s) == IF s.t \in {"object", "string"} THEN s.m ELSE EmptyMap

\* the if / else-if chain of execute/route.js, lines 80-143: the call it issues,
\* or threw = TRUE when it throws before issuing one
ExecuteBranch(a, s) ==
    CASE a.action = "find" ->
            [threw |-> FALSE, call |-> DbCall("find", QueryOrEmpty(a.query), SortOrEmpty(s))]
      [] a.action = "aggregate" ->
            [threw |-> FALSE, call |-> DbCall("aggregate", JsUndefined, EmptyMap)]
      [] a.action = "insert" ->
            [threw |-> FALSE, call |-> DbCall("insertMany", JsUndefined, EmptyMap)]
      [] a.action = "update" ->
            [threw |-> FALSE, call |-> DbCall("updateMany", QueryOrEmpty(a.query), EmptyMap)]
      [] a.action = "delete" ->
            IF QueryMissing(QueryOrEmpty(a.query))
            THEN [threw |-> TRUE, call |-> DbCall("none", JsUndefined, EmptyMap)]
            ELSE [threw |-> FALSE,
                  call |-> DbCall("deleteMany", QueryOrEmpty(a.query), EmptyMap)]
      [] OTHER ->
            [threw |-> TRUE, call |-> DbCall("none", JsUndefined, EmptyMap)]

\* the same chain in the copy of the handler kept at the end of
\* app/api/db/introspect/route.js, lines 166-198
ExecuteBranchLegacy(a, s) ==
    CASE a.action = "find" ->
            [threw |-> FALSE, call |-> DbCall("find", QueryOrEmpty(a.query), SortOrEmpty(s))]
      [] a.action = "aggregate" ->
            [threw |-> FALSE, call |-> DbCall("aggregate", JsUndefined, EmptyMap)]
      [] a.action = "insert" ->
            [threw |-> FALSE, call |-> DbCall("insertMany", JsUndefined, EmptyMap)]
      [] a.action = "update" ->
            [threw |-> FALSE, call |-> DbCall("updateMany", QueryOrEmpty(a.query), EmptyMap)]
      [] a.action = "delete" ->
            [threw |-> FALSE, call |-> DbCall("deleteMany", QueryOrEmpty(a.query), EmptyMap)]
      [] OTHER ->
            [threw |-> TRUE, call |-> DbCall("none", JsUndefined, EmptyMap)]

NoRequest == [uri |-> "", hasAction |-> FALSE, action |-> NoAction]

\* line 12: `await req.json()` delivers the body of the request; every request
\* is handled by its own invocation, starting from fresh local state
Receive ==
    /\ pc = "idle"
    /\ pc' = "received"
    /\ req' \in Requests
    /\ sort' = req'.action.sort
    /\ client' = "null"
    /\ opened' = 0
    /\ closeCalls' = 0
    /\ dbCalls' = <<>>
    /\ warnings' = {}
    /\ validation' = NoValidation
    /\ response' = NoResponse
    /\ UNCHANGED notExecVars

\* lines 15-55: input checks, validateAction, sort auto-fix
Validate ==
    /\ pc = "received"
    /\ IF req.uri = ""
       THEN /\ response' = Respond(400, FALSE, <<"MongoDB URI required">>)
            /\ pc' = "done"
            /\ UNCHANGED <<sort, warnings, validation>>
       ELSE IF ~req.hasAction
       THEN /\ response' = Respond(400, FALSE, <<"Action object required">>)
            /\ pc' = "done"
            /\ UNCHANGED <<sort, warnings, validation>>
       ELSE /\ validation' = validateAction(req.action)
            /\ IF ~validation'.valid
               THEN /\ response' = Respond(400, FALSE, validation'.errors)
                    /\ pc' = "done"
                    /\ UNCHANGED <<sort, warnings>>
               ELSE IF SortPresent(req.action) /\ sort.t = "string"
               THEN \* assigning to an index of a string primitive throws TypeError
                    /\ pc' = "catch"
                    /\ UNCHANGED <<sort, warnings, response>>
               ELSE IF SortPresent(req.action) /\ invalidSorts(sort) # {}
               THEN /\ warnings' = invalidSorts(sort)
                    /\ sort' = AutoFixSort(sort)
                    /\ pc' = "connecting"
                    /\ UNCHANGED response
               ELSE /\ pc' = "connecting"
                    /\ UNCHANGED <<sort, warnings, response>>
    /\ UNCHANGED <<req, client, opened, closeCalls, dbCalls>>
    /\ UNCHANGED notExecVars

\* a faulty variant: the connection is opened as soon as the body is read
ConnectEager(ok) ==
    /\ \/ pc = "connecting"
       \/ pc = "received" /\ opened = 0
    /\ IF ok
       THEN /\ client' = "connected"
            /\ opened' = opened + 1
            /\ pc' = IF pc = "connecting" THEN "connected" ELSE pc
       ELSE /\ pc' = "catch"
            /\ UNCHANGED <<client, opened>>
    /\ UNCHANGED <<req, sort, closeCalls, dbCalls, warnings, validation, response>>
    /\ UNCHANGED notExecVars

\* line 60: getNativeMongoClient(uri) resolves with a connected client or rejects
Connect(ok) ==
    /\ pc = "connecting"
    /\ IF ok
       THEN /\ client' = "connected"
            /\ opened' = opened + 1
            /\ pc' = "connected"
       ELSE /\ pc' = "catch"
            /\ UNCHANGED <<client, opened>>
    /\ UNCHANGED <<req, sort, closeCalls, dbCalls, warnings, validation, response>>
    /\ UNCHANGED notExecVars

\* lines 63-143: the branch of the action; the driver call resolves or rejects
Execute(ok) ==
    /\ pc = "connected"
    /\ LET br == ExecuteBranch(req.action, sort)
       IN  IF br.threw
           THEN /\ pc' = "catch"
                /\ UNCHANGED dbCalls
           ELSE /\ dbCalls' = Append(dbCalls, br.call)
                /\ pc' = IF ok THEN "closing" ELSE "catch"
    /\ UNCHANGED <<req, sort, client, opened, closeCalls, warnings, validation, response>>
    /\ UNCHANGED notExecVars

\* lines 146-157: client.close() on the success path, then the 200 response
Close(ok) ==
    /\ pc = "closing"
    /\ closeCalls' = closeCalls + 1
    /\ client' = "closed"
    /\ IF ok
       THEN /\ response' = Respond(200, TRUE, <<>>)
            /\ pc' = "done"
       ELSE /\ pc' = "catch"
            /\ UNCHANGED response
    /\ UNCHANGED <<req, sort, opened, dbCalls, warnings, validation>>
    /\ UNCHANGED notExecVars

\* a faulty variant: the catch block returns without closing the client
CatchCloseSkipped(c) == FALSE

\* line 163: `if (client)`
CatchCloses(c) == c # "null"

\* lines 159-175: the catch block closes the client, if any, and answers 500
Catch ==
    /\ pc = "catch"
    /\ IF CatchCloses(client)
       THEN /\ closeCalls' = closeCalls + 1
            /\ client' = "closed"
       ELSE UNCHANGED <<closeCalls, client>>
    /\ response' = Respond(500, FALSE, <<"Execution failed">>)
    /\ pc' = "done"
    /\ UNCHANGED <<req, sort, opened, dbCalls, warnings, validation>>
    /\ UNCHANGED notExecVars

NextExec ==
    \/ Receive
    \/ Validate
    \/ \E ok \in BOOLEAN : Connect(ok)
    \/ \E ok \in BOOLEAN : Execute(ok)
    \/ \E ok \in BOOLEAN : Close(ok)
    \/ Catch

\* the branch chain of the handler copy in app/api/db/introspect/route.js
ExecuteLegacy(ok) ==
    /\ pc = "connected"
    /\ LET br == ExecuteBranchLegacy(req.action, sort)
       IN  IF br.threw
           THEN /\ pc' = "catch"
                /\ UNCHANGED dbCalls
           ELSE /\ dbCalls' = Append(dbCalls, br.call)
                /\ pc' = IF ok THEN "closing" ELSE "catch"
    /\ UNCHANGED <<req, sort, client, opened, closeCalls, warnings, validation, response>>
    /\ UNCHANGED notExecVars

\* The executor taken on its own: the handler stands at the branch chain with a
\* connected client and an arbitrary action, whatever validateAction said of it.
NextDispatch ==
    \/ \E ok \in BOOLEAN : Execute(ok)
    \/ \E ok \in BOOLEAN : ExecuteLegacy(ok)
    \/ \E ok \in BOOLEAN : Close(ok)
    \/ Catch

(***************************************************************************)
(* The schema cache: getCachedDBMetadata / clearDBMetadataCache            *)
(* (lib/dbIntrospect.js)                                                   *)
(***************************************************************************)
\* ttl: 5 * 60 * 1000 ms
ttl == 5 * 60 * 1000
\* the clock advances in steps of half the ttl
TickMs == ttl \div 2
MaxTicks == 3
MaxScans == 3
Callers == {1, 2}
CacheUris == {"mongodb://a", "mongodb://b"}

\* a DatabaseSnapshot object: its identity and the uri whose scan produced it
Snapshot(id, uri) == [id |-> id, uri |-> uri]
NullSnapshot == Snapshot(0, "")
\* timestamp: null
NullTimestamp == 0

\* how a cache entry looks at a given time: "empty", "expired" or "fresh"
CacheLooks(cache, now) ==
    IF cache.data = NullSnapshot THEN "empty"
    ELSE IF now - cache.timestamp >= ttl THEN "expired" ELSE "fresh"

\* A getCachedDBMetadata invocation: its arguments, its `now`, what it returned,
\* whether it called scanDatabase, and how the cache looked when it began
IdleCall ==
    [pc |-> "idle", uri |-> "", forceRefresh |-> FALSE, now |-> 0,
     result |-> NullSnapshot, scanned |-> FALSE, saw |-> "none"]

EmptyCache == [data |-> NullSnapshot, timestamp |-> NullTimestamp]

\* a faulty variant: an entry that is exactly ttl old still counts as fresh
CacheValidAtTtl(cache, forceRefresh, now) ==
    /\ ~forceRefresh
    /\ cache.data # NullSnapshot
    /\ cache.timestamp # NullTimestamp
    /\ (now - cache.timestamp) <= ttl

\* a faulty variant: forceRefresh is not consulted
CacheValidIgnoresForce(cache, forceRefresh, now) ==
    /\ cache.data # NullSnapshot
    /\ cache.timestamp # NullTimestamp
    /\ (now - cache.timestamp) < ttl

\* a faulty variant: the age test is written the wrong way round
CacheValidReversed(cache, forceRefresh, now) ==
    /\ ~forceRefresh
    /\ cache.data # NullSnapshot
    /\ cache.timestamp # NullTimestamp
    /\ (now - cache.timestamp) > ttl

\* lines 319-324: the condition under which the cached snapshot is returned
CacheValid(cache, forceRefresh, now) ==
    /\ ~forceRefresh
    /\ cache.data # NullSnapshot
    /\ cache.timestamp # NullTimestamp
    /\ (now - cache.timestamp) < ttl

\* a faulty variant: a call that finds another caller's scan in flight answers
\* with whatever the cache holds instead of scanning itself
GetCachedStartJoins(c, uri, forceRefresh) ==
    /\ calls[c].pc = "idle"
    /\ IF \/ CacheValid(dbMetadataCache, forceRefresh, clock)
          \/ \E d \in Callers \ {c} : calls[d].pc = "scanning"
       THEN /\ calls' = [calls EXCEPT ![c] =
                          [pc |-> "returned", uri |-> uri, forceRefresh |-> forceRefresh,
                           now |-> clock, result |-> dbMetadataCache.data,
                           scanned |-> FALSE, saw |-> CacheLooks(dbMetadataCache, clock)]]
            /\ UNCHANGED scans
       ELSE /\ scans < MaxScans
            /\ calls' = [calls EXCEPT ![c] =
                          [pc |-> "scanning", uri |-> uri, forceRefresh |-> forceRefresh,
                           now |-> clock, result |-> NullSnapshot, scanned |-> TRUE,
                           saw |-> CacheLooks(dbMetadataCache, clock)]]
            /\ scans' = scans + 1
    /\ UNCHANGED <<dbMetadataCache, clock, produced, cleared, storedAt, overtaken>>
    /\ UNCHANGED notCacheVars

\* lines 316-331: read the clock, return the cached snapshot or start a scan
GetCachedStart(c, uri, forceRefresh) ==
    /\ calls[c].pc = "idle"
    /\ IF CacheValid(dbMetadataCache, forceRefresh, clock)
       THEN /\ calls' = [calls EXCEPT ![c] =
                          [pc |-> "returned", uri |-> uri, forceRefresh |-> forceRefresh,
                           now |-> clock, result |-> dbMetadataCache.data,
                           scanned |-> FALSE, saw |-> CacheLooks(dbMetadataCache, clock)]]
            /\ UNCHANGED scans
       ELSE /\ scans < MaxScans
            /\ calls' = [calls EXCEPT ![c] =
                          [pc |-> "scanning", uri |-> uri, forceRefresh |-> forceRefresh,
                           now |-> clock, result |-> NullSnapshot, scanned |-> TRUE,
                           saw |-> CacheLooks(dbMetadataCache, clock)]]
            /\ scans' = scans + 1
    /\ UNCHANGED <<dbMetadataCache, clock, produced, cleared, storedAt, overtaken>>
    /\ UNCHANGED notCacheVars

\* lines 331-337: scanDatabase(uri) resolves; the cache is updated with the
\* snapshot and with the clock value read when the call began
ScanResolves(c) ==
    /\ calls[c].pc = "scanning"
    /\ LET metadata == Snapshot(produced + 1, calls[c].uri)
       IN  /\ dbMetadataCache' = [data |-> metadata, timestamp |-> calls[c].now]
           /\ calls' = [calls EXCEPT ![c].pc = "returned", ![c].result = metadata]
    /\ produced' = produced + 1
    /\ storedAt' = clock
    /\ UNCHANGED <<clock, scans, cleared, overtaken>>
    /\ UNCHANGED notCacheVars

\* a faulty variant: a failed scan drops the cache entry
ScanRejectsDropsEntry(c) ==
    /\ calls[c].pc = "scanning"
    /\ calls' = [calls EXCEPT ![c].pc = "threw"]
    /\ dbMetadataCache' = EmptyCache
    /\ UNCHANGED <<clock, scans, produced, cleared, storedAt, overtaken>>
    /\ UNCHANGED notCacheVars

\* line 331: scanDatabase(uri) rejects; the error propagates to the caller
ScanRejects(c) ==
    /\ calls[c].pc = "scanning"
    /\ calls' = [calls EXCEPT ![c].pc = "threw"]
    /\ UNCHANGED <<dbMetadataCache, clock, scans, produced, cleared, storedAt, overtaken>>
    /\ UNCHANGED notCacheVars

\* lines 343-346: the cache after clearDBMetadataCache
ClearedCache(cache) == [data |-> NullSnapshot, timestamp |-> NullTimestamp]

\* clearDBMetadataCache()
ClearCache ==
    /\ dbMetadataCache.data # NullSnapshot
    /\ cleared' = cleared \cup {dbMetadataCache.data.id}
    /\ dbMetadataCache' = ClearedCache(dbMetadataCache)
    /\ storedAt' = 0
    /\ overtaken' = overtaken \cup {c \in Callers : calls[c].pc = "scanning"}
    /\ UNCHANGED <<clock, calls, scans, produced>>
    /\ UNCHANGED notCacheVars

\* the caller has its answer; its next call starts afresh
CallEnds(c) ==
    /\ calls[c].pc \in {"returned", "threw"}
    /\ calls' = [calls EXCEPT ![c] = IdleCall]
    /\ overtaken' = overtaken \ {c}
    /\ UNCHANGED <<dbMetadataCache, clock, scans, produced, cleared, storedAt>>
    /\ UNCHANGED notCacheVars

\* time passes
Tick ==
    /\ clock < MaxTicks * TickMs
    /\ clock' = clock + TickMs
    /\ UNCHANGED <<dbMetadataCache, calls, scans, produced, cleared, storedAt, overtaken>>
    /\ UNCHANGED notCacheVars

NextCache ==
    \/ \E c \in Callers, uri \in CacheUris, forceRefresh \in BOOLEAN :
          GetCachedStart(c, uri, forceRefresh)
    \/ \E c \in Callers : ScanResolves(c)
    \/ \E c \in Callers : ScanRejects(c)
    \/ ClearCache
    \/ \E c \in Callers : CallEnds(c)
    \/ Tick

(***************************************************************************)
(* The model orchestrator: parseUserInstruction, parseWithGemini,          *)
(* parseWithOpenAI (lib/ai.js, lines 223-348)                              *)
(***************************************************************************)
maxRetries == 3
\* the factor of `attempt * 2000`
BackoffMs == 2000

\* String.prototype.includes: t occurs in s
includes(s, t) ==
    \E i \in 1..(Len(s) - Len(t) + 1) : SubSeq(s, i, i + Len(t) - 1) = t

\* An error and its message
Error(msg) == [msg |-> msg]
NoError == Error("")
\* what a provider call may reject with
ProviderErrors ==
    { Error("429 Too Many Requests"), Error("You exceeded your current quota"),
      Error("503 Service Unavailable") }

\* a faulty variant: every error is taken for a rate-limit signal
IsRateLimitAlways(err) == TRUE

\* line 301: the test that decides between a retry and a rethrow
IsRateLimit(err) == includes(err.msg, "429") \/ includes(err.msg, "quota")

\* What a provider call may resolve with: a completion text.  kind tells what
\* parseJSONResponse makes of it: "action" parses to an action with action and
\* collection; "malformed" makes JSON.parse throw; "echo" makes JSON.parse throw
\* an error whose message quotes the text, which mentions a quota;
\* "noAction" parses to an object without action.
Completion(id, kind) == [id |-> id, kind |-> kind]
Completions ==
    { Completion(1, "action"), Completion(2, "action"), Completion(3, "malformed"),
      Completion(4, "echo"), Completion(5, "noAction") }

\* parseJSONResponse (lines 412-427) on a completion: the action or the error
ParsedAction(c) == [from |-> c.id]
NoParsedAction == [from |-> 0]
parseJSONResponse(c) ==
    CASE c.kind = "action"    -> [ok |-> TRUE, action |-> ParsedAction(c), err |-> NoError]
      [] c.kind = "malformed" ->
            [ok |-> FALSE, action |-> NoParsedAction,
             err |-> Error("Unexpected end of JSON input")]
      [] c.kind = "echo"      ->
            [ok |-> FALSE, action |-> NoParsedAction,
             err |-> Error("Unexpected token 'q', \"quota ...\" is not valid JSON")]
      [] OTHER                ->
            [ok |-> FALSE, action |-> NoParsedAction,
             err |-> Error("AI response missing action")]

\* outcomes of a provider call, as logged
Resolved(c) == [resolved |-> TRUE, completion |-> c, error |-> NoError]
Rejected(e) == [resolved |-> FALSE, completion |-> Completion(0, "none"), error |-> e]
ProviderOutcomes == { Resolved(c) : c \in Completions } \cup { Rejected(e) : e \in ProviderErrors }

\* what parseUserInstruction produced
NoResult == [done |-> FALSE, ok |-> FALSE, action |-> NoParsedAction, error |-> NoError]
Returned(a) == [done |-> TRUE, ok |-> TRUE, action |-> a, error |-> NoError]
Threw(e) == [done |-> TRUE, ok |-> FALSE, action |-> NoParsedAction, error |-> e]

\* a faulty variant: the aggregate error keeps the fallback's message only
BothFailedDropsFirst(g, o) == Error("Both Gemini & OpenAI failed -> OpenAI: (" \o o.msg \o ")")

\* lines 252-255: the error thrown when the fallback fails too (the message
\* without its two pictographs)
BothFailed(g, o) ==
    Error("Both Gemini & OpenAI failed -> Gemini: (" \o g.msg \o ") | OpenAI: (" \o o.msg \o ")")

\* lines 223-232 and 269-279: parseUserInstruction calls parseWithGemini, which
\* checks its key and enters the retry loop
OrchStart(geminiKey, openaiKey) ==
    /\ orchPc = "idle"
    /\ env' = [GEMINI_API_KEY |-> geminiKey, OPENAI_API_KEY |-> openaiKey]
    /\ IF geminiKey
       THEN /\ orchPc' = "gemini"
            /\ attempt' = 1
            /\ UNCHANGED geminiError
       ELSE /\ orchPc' = "openai"
            /\ geminiError' = Error("GEMINI_API_KEY missing in environment")
            /\ UNCHANGED attempt
    /\ UNCHANGED <<lastError, orchResult, geminiLog, openaiLog, waits>>
    /\ UNCHANGED notOrchVars

\* a faulty variant: the loop runs while attempt < maxRetries
LoopContinuesOneShort(a) == a < maxRetries

\* a faulty variant: the loop runs one iteration longer
LoopContinuesOneMore(a) == a <= maxRetries + 1

\* line 279: the loop condition `attempt <= maxRetries`
LoopContinues(a) == a <= maxRetries

\* lines 280-311: one iteration of the retry loop, up to its next await: the
\* generateContent call settles, the completion is parsed, an error is caught
GeminiAttempt(o) ==
    /\ orchPc = "gemini"
    /\ geminiLog' = Append(geminiLog, o)
    /\ LET parsed == parseJSONResponse(o.completion)
           err == IF o.resolved THEN parsed.err ELSE o.error
       IN  IF o.resolved /\ parsed.ok
           THEN /\ orchResult' = Returned(parsed.action)
                /\ orchPc' = "done"
                /\ UNCHANGED <<lastError, geminiError, waits>>
           ELSE /\ lastError' = err
                /\ IF IsRateLimit(err)
                   THEN /\ waits' = Append(waits, attempt * BackoffMs)
                        /\ orchPc' = "backoff"
                        /\ UNCHANGED <<geminiError, orchResult>>
                   ELSE /\ geminiError' = err
                        /\ orchPc' = "openai"
                        /\ UNCHANGED <<waits, orchResult>>
    /\ UNCHANGED <<env, attempt, openaiLog>>
    /\ UNCHANGED notOrchVars

\* lines 306-314: the timer fires, `continue` increments attempt; when the loop
\* ends parseWithGemini throws "Gemini failed after retries"
BackoffEnds ==
    /\ orchPc = "backoff"
    /\ attempt' = attempt + 1
    /\ IF LoopContinues(attempt')
       THEN /\ orchPc' = "gemini"
            /\ UNCHANGED geminiError
       ELSE /\ orchPc' = "openai"
            /\ geminiError' = Error("Gemini failed after retries: " \o lastError.msg)
    /\ UNCHANGED <<env, lastError, orchResult, geminiLog, openaiLog, waits>>
    /\ UNCHANGED notOrchVars

\* lines 239-256 and 327-329: the fallback finds no OpenAI key
OpenAIKeyMissing ==
    /\ orchPc = "openai"
    /\ ~env.OPENAI_API_KEY
    /\ orchResult' =
          Threw(BothFailed(geminiError, Error("OPENAI_API_KEY missing in environment")))
    /\ orchPc' = "done"
    /\ UNCHANGED <<env, attempt, lastError, geminiError, geminiLog, openaiLog, waits>>
    /\ UNCHANGED notOrchVars

\* lines 239-256 and 331-347: the fallback call settles; its completion is
\* parsed, or both errors are thrown as one
OpenAIAttempt(o) ==
    /\ orchPc = "openai"
    /\ env.OPENAI_API_KEY
    /\ openaiLog' = Append(openaiLog, o)
    /\ LET parsed == parseJSONResponse(o.completion)
       IN  IF o.resolved /\ parsed.ok
           THEN orchResult' = Returned(parsed.action)
           ELSE orchResult' =
                   Threw(BothFailed(geminiError, IF o.resolved THEN parsed.err ELSE o.error))
    /\ orchPc' = "done"
    /\ UNCHANGED <<env, attempt, lastError, geminiError, geminiLog, waits>>
    /\ UNCHANGED notOrchVars

NextOrch ==
    \/ \E geminiKey \in BOOLEAN, openaiKey \in BOOLEAN : OrchStart(geminiKey, openaiKey)
    \/ \E o \in ProviderOutcomes : GeminiAttempt(o)
    \/ BackoffEnds
    \/ OpenAIKeyMissing
    \/ \E o \in ProviderOutcomes : OpenAIAttempt(o)

(***************************************************************************)
(* The translate endpoint: POST (app/api/ai/route.js, lines 72-310) with   *)
(* the Ollama variant of lib/ai.js (src/unnamed/part_002)                  *)
(***************************************************************************)
\* body.dbType (default "mongodb") and body.previewLimit (default 50)
DbTypes == {"mongodb", "postgresql"}
PreviewLimits == {5, 50}
\* the body: userText is whether it is a non-blank string, hasUri whether uri
\* or dbURI is set
TranslateRequests ==
    [userText : BOOLEAN, hasUri : BOOLEAN, dbType : DbTypes, previewLimit : PreviewLimits]
NoTranslateRequest ==
    [userText |-> FALSE, hasUri |-> FALSE, dbType |-> "mongodb", previewLimit |-> 50]

\* The object JSON.parse makes of a completion.  options is absent, null, a
\* string, or an object whose limit is absent or a number; "" stands for an
\* absent or empty action, collection or table.
PayloadOptions(t, l) == [t |-> t, limit |-> l]
LimitValues == {JsUndefined, JsNumber(0), JsNumber(10)}
OptionValues ==
    { PayloadOptions(t, JsUndefined) : t \in {"undefined", "null", "string"} }
    \cup { PayloadOptions("object", l) : l \in LimitValues }
PayloadQueries == {JsUndefined, JsNull, JsObject({}), JsObject({"age"})}
TableNames == {"", "users"}
Payloads ==
    { [action |-> n, collection |-> c, table |-> tb, query |-> q, insert |-> i,
       pipeline |-> pl, options |-> o, limit |-> JsUndefined] :
        n \in ActionNames, c \in CollectionNames, tb \in TableNames, q \in PayloadQueries,
        i \in {JsUndefined, JsObject({"name"})}, pl \in {JsUndefined, JsArray({"0"})},
        o \in OptionValues }
NoPayload ==
    [action |-> "", collection |-> "", table |-> "", query |-> JsUndefined,
     insert |-> JsUndefined, pipeline |-> JsUndefined,
     options |-> PayloadOptions("undefined", JsUndefined), limit |-> JsUndefined]

\* What the generate request settles with: a completion whose text parses to
\* json, a completion whose text JSON.parse rejects, a non-OK status, or a
\* rejected fetch.
GenerateOutcome(kind, json) == [kind |-> kind, json |-> json]
NoCompletion == GenerateOutcome("none", NoPayload)
GenerateOutcomes ==
    { GenerateOutcome("json", j) : j \in Payloads }
    \cup { GenerateOutcome(k, NoPayload) : k \in {"text", "status", "network"} }

\* what a function returned or threw
NotParsed == [done |-> FALSE, ok |-> FALSE, action |-> NoPayload, error |-> NoError]
ParseReturned(a) == [done |-> TRUE, ok |-> TRUE, action |-> a, error |-> NoError]
ParseThrew(e) == [done |-> TRUE, ok |-> FALSE, action |-> NoPayload, error |-> e]

\* part_002 line 361
collectionField(dbType) == IF dbType = "mongodb" THEN "collection" ELSE "table"

\* a faulty variant: the collection is never required
CollectionMissingNever(json, dbType) == FALSE

\* part_002 line 362: `!json[collectionField] && !json.collection && !json.table`
CollectionMissing(json, dbType) ==
    /\ (IF dbType = "mongodb" THEN json.collection ELSE json.table) = ""
    /\ json.collection = ""
    /\ json.table = ""

\* `json.options.limit || previewLimit` and `json.limit || previewLimit`
LimitOrPreview(l, previewLimit) == IF Truthy(l) THEN l ELSE JsNumber(previewLimit)

\* part_002 lines 385-389: what the catch of parseJSONResponse throws
FailedToParse(msg) ==
    Error("Failed to parse AI response as JSON. The AI returned invalid JSON format. Error: "
          \o msg)

\* parseJSONResponse of the Ollama variant (part_002 lines 353-390) on what
\* the text parses to.  Assigning options.limit on a string throws a TypeError
\* in module (strict) code; every throw is caught and rethrown by the catch.
parseOllamaJSON(o, previewLimit, dbType) ==
    LET json == o.json
    IN  IF o.kind # "json"
        THEN ParseThrew(FailedToParse("Unexpected end of JSON input"))
        ELSE IF json.action = ""
        THEN ParseThrew(FailedToParse("Missing 'action' field in response"))
        ELSE IF CollectionMissing(json, dbType)
        THEN ParseThrew(FailedToParse(
                 "Missing '" \o collectionField(dbType) \o "' field in response"))
        ELSE IF dbType # "mongodb"
        THEN ParseReturned([json EXCEPT !.limit = LimitOrPreview(json.limit, previewLimit)])
        ELSE IF json.options.t = "string"
        THEN ParseThrew(FailedToParse("Cannot create property 'limit' on string"))
        ELSE ParseReturned(
                 [json EXCEPT
                     !.options = PayloadOptions("object",
                                     LimitOrPreview(json.options.limit, previewLimit)),
                     !.query = QueryOrEmpty(json.query)])

\* parseWithOllama (part_002 lines 132-168) once the generate request settled
parseWithOllama(o, previewLimit, dbType) ==
    LET thrown ==
            CASE o.kind = "status"  -> Error("Ollama API error: 500 - model not found")
              [] o.kind = "network" -> Error("fetch failed")
              [] OTHER              -> parseOllamaJSON(o, previewLimit, dbType).error
    IN  IF o.kind \in {"json", "text"} /\ parseOllamaJSON(o, previewLimit, dbType).ok
        THEN parseOllamaJSON(o, previewLimit, dbType)
        ELSE IF includes(thrown.msg, "fetch")
        THEN ParseThrew(Error("Cannot connect to Ollama. Make sure it's running: ollama serve"))
        ELSE ParseThrew(Error("Ollama failed: " \o thrown.msg))

\* part_002 lines 24-29 (the message without its pictograph)
NotRunning ==
    Error("Ollama is not running. Please start it: 1. Install from https://ollama.com "
          \o "2. Run: ollama serve 3. Pull model: ollama pull qwen2.5-coder:7b")

\* a fetch being awaited: its url, the timeout of its abort signal (NoTimeout
\* when it has none) and whether the server will never answer it
Fetch(url, timeoutMs, silent) == [url |-> url, timeoutMs |-> timeoutMs, silent |-> silent]
NoTimeout == 0
NoFetch == Fetch("none", NoTimeout, FALSE)
TagsUrl == "http://localhost:11434/api/tags"
OLLAMA_URL == "http://localhost:11434/api/generate"
\* AbortSignal.timeout(3000)
ProbeTimeoutMs == 3000

\* a faulty variant: the probe's answer is ignored
checkOllamaRunningAlways(outcome) == TRUE

\* checkOllamaRunning (part_002 lines 95-106): response.ok, false when the
\* fetch was rejected or aborted
checkOllamaRunning(outcome) == outcome = "ok"

\* errors.join("; ")
RECURSIVE join(_, _)
join(errors, sep) ==
    IF Len(errors) = 0 THEN ""
    ELSE IF Len(errors) = 1 THEN errors[1]
    ELSE errors[1] \o sep \o join(Tail(errors), sep)

\* the responses of the endpoint
TranslateResponse(status, ok, error, details, action) ==
    [status |-> status, ok |-> ok, error |-> error, details |-> details, action |-> action]
NoTranslateResponse == TranslateResponse(0, FALSE, "", "", NoPayload)

\* route.js lines 287-297 (the messages without their pictographs)
userMessage(error) ==
    IF includes(error.msg, "Ollama is not running")
    THEN "Ollama is not running. Please start it with: ollama serve"
    ELSE IF includes(error.msg, "Failed to parse")
    THEN "AI response was invalid. Try rephrasing your query."
    ELSE IF includes(error.msg, "connect")
    THEN "Cannot connect to database or Ollama. Check your connections."
    ELSE IF includes(error.msg, "introspect") \/ includes(error.msg, "schema")
    THEN "Database introspection failed. Query will work but may be less accurate."
    ELSE error.msg

\* route.js lines 280-308: the catch of the handler
CatchResponse(error) == TranslateResponse(500, FALSE, userMessage(error), error.msg, NoPayload)

\* a faulty variant: the result of the validation is not looked at
ValidationFailedNever(v) == FALSE

\* route.js line 194: `!validation.valid`
ValidationFailed(v) == ~v.valid

\* part_002 lines 22 and 97-100: parseUserInstruction calls checkOllamaRunning,
\* which fetches /api/tags under a 3 s abort signal
ProbeStarts ==
    /\ tPc' = "probing"
    /\ inflight' \in { Fetch(TagsUrl, ProbeTimeoutMs, sl) : sl \in BOOLEAN }
    /\ fetches' = Append(fetches, TagsUrl)

\* route.js lines 79-104 and 155-181: the body is read; a blank userText is
\* answered 400; a request without uri goes on to parseUserInstruction
TranslateReceive ==
    /\ tPc = "idle"
    /\ tReq' \in TranslateRequests
    /\ IF ~tReq'.userText
       THEN /\ tPc' = "done"
            /\ tResponse' =
                  TranslateResponse(400, FALSE, "userText is required and cannot be empty",
                                    "", NoPayload)
            /\ UNCHANGED <<inflight, fetches>>
       ELSE IF tReq'.hasUri
       THEN /\ tPc' = "metadata"
            /\ UNCHANGED <<inflight, fetches, tResponse>>
       ELSE /\ ProbeStarts
            /\ UNCHANGED tResponse
    /\ UNCHANGED <<schemaUsed, probe, completion, parseResult, tValidation>>
    /\ UNCHANGED notTrVars

\* route.js lines 112-181: getCachedDBMetadata settles; its collections fill
\* collectionSchemas, a failure is logged and the handler goes on without
MetadataSettles(ok) ==
    /\ tPc = "metadata"
    /\ schemaUsed' = ok
    /\ ProbeStarts
    /\ UNCHANGED <<tReq, probe, completion, parseResult, tValidation, tResponse>>
    /\ UNCHANGED notTrVars

\* part_002 lines 22-39 and 101-105: the probe ended.  When Ollama is taken to
\* run, parseWithOllama posts to OLLAMA_URL with no abort signal (lines
\* 133-147); otherwise parseUserInstruction throws and the handler's catch
\* answers 500.
ProbeEnds(outcome) ==
    /\ probe' = outcome
    /\ IF checkOllamaRunning(outcome)
       THEN /\ tPc' = "generating"
            /\ inflight' \in { Fetch(OLLAMA_URL, NoTimeout, sl) : sl \in BOOLEAN }
            /\ fetches' = Append(fetches, OLLAMA_URL)
            /\ UNCHANGED <<parseResult, tResponse>>
       ELSE /\ tPc' = "done"
            /\ inflight' = NoFetch
            /\ parseResult' = ParseThrew(NotRunning)
            /\ tResponse' = CatchResponse(NotRunning)
            /\ UNCHANGED fetches
    /\ UNCHANGED <<tReq, schemaUsed, completion, tValidation>>
    /\ UNCHANGED notTrVars

\* the server answers the probe, or the fetch is rejected
ProbeSettles(outcome) ==
    /\ tPc = "probing"
    /\ ~inflight.silent
    /\ ProbeEnds(outcome)

\* the abort signal of the probe fires
ProbeTimesOut ==
    /\ tPc = "probing"
    /\ inflight.timeoutMs > 0
    /\ ProbeEnds("timeout")

\* part_002 lines 149-168 and route.js lines 175-278: the generate request
\* settles; the completion is parsed, the action validated and answered
GenerateSettles(o) ==
    /\ tPc = "generating"
    /\ ~inflight.silent
    /\ completion' = o
    /\ inflight' = NoFetch
    /\ parseResult' = parseWithOllama(o, tReq.previewLimit, tReq.dbType)
    /\ IF parseResult'.ok
       THEN /\ tValidation' = validateAction(parseResult'.action)
            /\ IF ValidationFailed(tValidation')
               THEN tResponse' =
                       TranslateResponse(400, FALSE,
                           "Invalid query structure: " \o join(tValidation'.errors, "; "),
                           "", parseResult'.action)
               ELSE tResponse' = TranslateResponse(200, TRUE, "", "", parseResult'.action)
       ELSE /\ tResponse' = CatchResponse(parseResult'.error)
            /\ UNCHANGED tValidation
    /\ tPc' = "done"
    /\ UNCHANGED <<tReq, schemaUsed, fetches, probe>>
    /\ UNCHANGED notTrVars

NextTranslate ==
    \/ TranslateReceive
    \/ \E ok \in BOOLEAN : MetadataSettles(ok)
    \/ \E outcome \in {"ok", "status", "network"} : ProbeSettles(outcome)
    \/ ProbeTimesOut
    \/ \E o \in GenerateOutcomes : GenerateSettles(o)

(***************************************************************************)
(* Schema inference: inferSchema, getFieldType, formatSampleValue          *)
(* (lib/dbIntrospect.js, src/unnamed/part_001 lines 90-177)                *)
(***************************************************************************)
MaxDocs == 2

\* A value of a sampled document.  t tells the kinds apart as getFieldType
\* does, n is the number (the length of an array, the key count of an object,
\* 1 or 0 for true or false), s the characters of a string or of a date's
\* toISOString()
FieldValue(t, n, s) == [t |-> t, n |-> n, s |-> s]
NullValue == FieldValue("null", 0, "")
NumberValue(n) == FieldValue("number", n, "")
BooleanValue(b) == FieldValue("boolean", IF b THEN 1 ELSE 0, "")
StringValue(s) == FieldValue("string", 0, s)
ArrayValue(n) == FieldValue("array", n, "")
ObjectValue(n) == FieldValue("object", n, "")
DateValue(iso) == FieldValue("date", 0, iso)

\* ToBoolean of a recorded sample: 0, false and "" are falsy
TruthyValue(x) ==
    CASE x.t = "null"    -> FALSE
      [] x.t = "number"  -> x.n # 0
      [] x.t = "boolean" -> x.n = 1
      [] x.t = "string"  -> x.s # ""
      [] OTHER           -> TRUE

Digits == {"0", "1", "2", "3", "4", "5", "6", "7", "8", "9"}
HexDigits == Digits \cup {"a", "b", "c", "d", "e", "f"}
CharAt(s, i) == IF i <= Len(s) THEN SubSeq(s, i, i) ELSE ""

\* line 152: /^\d{4}-\d{2}-\d{2}/.test(value)
DateStringTest(s) ==
    /\ \A i \in {1, 2, 3, 4, 6, 7, 9, 10} : CharAt(s, i) \in Digits
    /\ CharAt(s, 5) = "-"
    /\ CharAt(s, 8) = "-"

\* line 153: /^[a-f0-9]{24}$/.test(value)
ObjectIdTest(s) ==
    /\ Len(s) = 24
    /\ \A i \in 1..24 : CharAt(s, i) \in HexDigits

\* lines 141-158 (numbers are integers here)
getFieldType(value) ==
    CASE value.t = "null"    -> "null"
      [] value.t = "array"   -> "array"
      [] value.t = "date"    -> "date"
      [] value.t = "object"  -> "object"
      [] value.t = "number"  -> "integer"
      [] value.t = "boolean" -> "boolean"
      [] value.t = "string"  ->
            IF DateStringTest(value.s) THEN "date-string"
            ELSE IF ObjectIdTest(value.s) THEN "objectid-string"
            ELSE IF includes(value.s, "@") THEN "email"
            ELSE "string"
      [] OTHER               -> "unknown"

\* lines 163-177
formatSampleValue(value, type) ==
    IF type = "array" THEN StringValue("[" \o ToString(value.n) \o " items]")
    ELSE IF type = "object" THEN StringValue("{" \o ToString(value.n) \o " keys}")
    ELSE IF type = "date" THEN StringValue(value.s)
    ELSE IF value.t = "string" /\ Len(value.s) > 50
    THEN StringValue(SubSeq(value.s, 1, 47) \o "...")
    ELSE value

\* the documents a sample can hold: ordered lists of [key, value] entries, as
\* Object.entries(doc) yields them
FieldNames == {"a", "b"}
LongString == "0123456789012345678901234567890123456789012345678901"
FieldValues(key) ==
    IF key = "a"
    THEN {NumberValue(0), NumberValue(5), BooleanValue(FALSE), StringValue("")}
    ELSE {NullValue, StringValue("ann@x.io"), StringValue("2024-01-05"),
          StringValue(LongString), ArrayValue(2), DateValue("2024-01-05T00:00:00.000Z")}
Entry(key, value) == <<key, value>>
Docs ==
    {<<>>}
      \cup { <<Entry(k, v)>> : k \in {"a"}, v \in FieldValues("a") }
      \cup { <<Entry(k, v)>> : k \in {"b"}, v \in FieldValues("b") }
      \cup { <<Entry("a", v), Entry("b", w)>> : v \in FieldValues("a"), w \in FieldValues("b") }
      \cup { <<Entry("b", w), Entry("a", v)>> : v \in FieldValues("a"), w \in FieldValues("b") }
Samples == UNION { [1..n -> Docs] : n \in 0..MaxDocs }

\* every entry of every document, in the order forEach visits them
RECURSIVE Entries(_)
Entries(docs) == IF docs = <<>> THEN <<>> ELSE Head(docs) \o Entries(Tail(docs))

\* a faulty variant: every visit adds the element again
SetAddAlways(seq, x) == Append(seq, x)

\* Set.prototype.add: insertion order, no duplicates
SetAdd(seq, x) == IF \E i \in DOMAIN seq : seq[i] = x THEN seq ELSE Append(seq, x)

\* line 117: !sampleValues[key]
SampleMissing(sampleValues, key) ==
    key \notin DOMAIN sampleValues \/ ~TruthyValue(sampleValues[key])

EmptyAnalysis == [fieldSet |-> <<>>, fieldTypes |-> <<>>, sampleValues |-> <<>>]

\* lines 105-120: the callback applied to one [key, value] entry
AnalyseEntry(acc, key, value) ==
    LET type == getFieldType(value)
    IN  [fieldSet |-> SetAdd(acc.fieldSet, key),
         fieldTypes |->
            [k \in DOMAIN acc.fieldTypes \cup {key} |->
                IF k = key
                THEN SetAdd(IF key \in DOMAIN acc.fieldTypes
                            THEN acc.fieldTypes[key] ELSE <<>>, type)
                ELSE acc.fieldTypes[k]],
         sampleValues |->
            IF SampleMissing(acc.sampleValues, key) /\ value.t # "null"
            THEN [k \in DOMAIN acc.sampleValues \cup {key} |->
                    IF k = key THEN formatSampleValue(value, type)
                    ELSE acc.sampleValues[k]]
            ELSE acc.sampleValues]

\* lines 104-121: the two nested forEach loops
RECURSIVE Analyse(_, _)
Analyse(entries, acc) ==
    IF entries = <<>> THEN acc
    ELSE Analyse(Tail(entries), AnalyseEntry(acc, Head(entries)[1], Head(entries)[2]))

\* lines 90-136
inferSchema(docs) ==
    IF Len(docs) = 0
    THEN [fields |-> <<>>, fieldTypes |-> <<>>, sampleValues |-> <<>>]
    ELSE LET acc == Analyse(Entries(docs), EmptyAnalysis)
             fields == acc.fieldSet
         IN  [fields |-> fields,
              fieldTypes |-> [f \in { fields[i] : i \in DOMAIN fields } |-> acc.fieldTypes[f]],
              sampleValues |-> acc.sampleValues]

NoSchema == [fields |-> <<"none">>, fieldTypes |-> <<>>, sampleValues |-> <<>>]

\* one call of inferSchema on a sample
InferSchemaCall ==
    /\ schema = NoSchema
    /\ documents' \in Samples
    /\ schema' = inferSchema(documents')
    /\ UNCHANGED notInferVars

NextInfer == InferSchemaCall

(***************************************************************************)
(* scanDatabase (lib/dbIntrospect.js, src/unnamed/part_001 lines 12-83)    *)
(***************************************************************************)
MaxCollections == 2
ScanNames == {"users", "orders", "logs"}
\* what listCollections can resolve with: distinct names, in any order
Listings ==
    UNION { { l \in [1..n -> ScanNames] : \A i, j \in 1..n : l[i] = l[j] => i = j } :
            n \in 0..MaxCollections }

\* an index as collection.indexes() reports it; unique may be missing
Index(name, key, unique) == [name |-> name, key |-> key, unique |-> unique]
IdIndex == Index("_id_", <<"_id">>, "undefined")
EmailIndex == Index("email_1", <<"email">>, "true")
IndexLists == {<<IdIndex>>, <<IdIndex, EmailIndex>>}
\* lines 48-52: the shape each index is mapped to
MapIndex(idx) ==
    [name |-> idx.name, keys |-> idx.key, unique |-> (idx.unique = "true")]

DocumentCounts == {0, 7}
ScanSamples ==
    { <<>>,
      << <<Entry("a", NumberValue(5))>> >>,
      << <<Entry("a", NullValue)>>, <<Entry("b", StringValue("ann@x.io")), Entry("a", NumberValue(0))>> >> }

\* how the three awaited calls of one loop iteration end: `failed` names the
\* call that rejected ("none" if all three resolved)
Analysis(failed, sampleDocs, count, indexes) ==
    [failed |-> failed, sampleDocs |-> sampleDocs, count |-> count, indexes |-> indexes]
AnalysisOutcomes ==
    { Analysis(f, <<>>, 0, <<>>) : f \in {"find", "countDocuments", "indexes"} }
      \cup { Analysis("none", d, n, x) :
                d \in ScanSamples, n \in DocumentCounts, x \in IndexLists }

\* lines 43-56: the entry pushed for a collection
CollectionInfo(name, o) ==
    LET sch == inferSchema(o.sampleDocs)
    IN  [name |-> name,
         fields |-> sch.fields,
         fieldTypes |-> sch.fieldTypes,
         sampleValues |-> sch.sampleValues,
         indexes |-> [i \in DOMAIN o.indexes |-> MapIndex(o.indexes[i])],
         documentCount |-> o.count,
         avgDocSize |-> 0,
         storageSize |-> 0]

RECURSIVE SumDocumentCount(_)
SumDocumentCount(infos) ==
    IF infos = <<>> THEN 0 ELSE Head(infos).documentCount + SumDocumentCount(Tail(infos))

\* a faulty variant: totalCollections counts the collections listed
TotalCollectionsListed(infos, listed) == Len(listed)

\* line 69
TotalCollections(infos, listed) == Len(infos)

\* what scanDatabase returned or threw
ScanReturn(state, cols, total, docs) ==
    [state |-> state, collections |-> cols, totalCollections |-> total,
     totalDocuments |-> docs]
NoScanReturn == ScanReturn("none", <<>>, 0, 0)
ScanThrew == ScanReturn("threw", <<>>, 0, 0)

\* line 18: getNativeMongoClient(uri) resolves or rejects
ScanConnect(ok) ==
    /\ scanPc = "idle"
    /\ IF ok
       THEN /\ scanClient' = "connected"
            /\ scanPc' = "listing"
       ELSE /\ scanPc' = "catch"
            /\ UNCHANGED scanClient
    /\ UNCHANGED <<collections, colIndex, dbInfo, analysed, scanReturn>>
    /\ UNCHANGED notScanVars

\* line 22: db.listCollections().toArray() resolves or rejects
ScanList(ok) ==
    /\ scanPc = "listing"
    /\ IF ok
       THEN /\ collections' \in Listings
            /\ scanPc' = "looping"
       ELSE /\ scanPc' = "catch"
            /\ UNCHANGED collections
    /\ UNCHANGED <<scanClient, colIndex, dbInfo, analysed, scanReturn>>
    /\ UNCHANGED notScanVars

\* lines 27-62: one iteration of the for loop, with its own try/catch
AnalyseCollection(o) ==
    /\ scanPc = "looping"
    /\ colIndex < Len(collections)
    /\ colIndex' = colIndex + 1
    /\ analysed' = Append(analysed, o.failed)
    /\ dbInfo' = IF o.failed = "none"
                 THEN Append(dbInfo, CollectionInfo(collections[colIndex + 1], o))
                 ELSE dbInfo
    /\ UNCHANGED <<scanPc, scanClient, collections, scanReturn>>
    /\ UNCHANGED notScanVars

\* lines 64-72: client.close() after the loop, then the snapshot is returned
ScanClose(ok) ==
    /\ scanPc = "looping"
    /\ colIndex = Len(collections)
    /\ IF ok
       THEN /\ scanClient' = "closed"
            /\ scanReturn' = ScanReturn("returned", dbInfo,
                                        TotalCollections(dbInfo, collections),
                                        SumDocumentCount(dbInfo))
            /\ scanPc' = "done"
       ELSE /\ scanPc' = "catch"
            /\ UNCHANGED <<scanClient, scanReturn>>
    /\ UNCHANGED <<collections, colIndex, dbInfo, analysed>>
    /\ UNCHANGED notScanVars

\* lines 73-82: the outer catch closes the client, if any, and rethrows
ScanCatch(ok) ==
    /\ scanPc = "catch"
    /\ scanClient' = IF scanClient # "null" /\ ok THEN "closed" ELSE scanClient
    /\ scanReturn' = ScanThrew
    /\ scanPc' = "done"
    /\ UNCHANGED <<collections, colIndex, dbInfo, analysed>>
    /\ UNCHANGED notScanVars

NextScan ==
    \/ \E ok \in BOOLEAN : ScanConnect(ok)
    \/ \E ok \in BOOLEAN : ScanList(ok)
    \/ \E o \in AnalysisOutcomes : AnalyseCollection(o)
    \/ \E ok \in BOOLEAN : ScanClose(ok)
    \/ \E ok \in BOOLEAN : ScanCatch(ok)

(***************************************************************************)
(* The response normalizer on raw text: parseJSONResponse                  *)
(* (lib/ai.js, Ollama variant, src/unnamed/part_002 lines 332-390)         *)
(* Texts are strings; "^" stands for the grave accent, which a string      *)
(* constant cannot hold.                                                   *)
(***************************************************************************)
Backtick == "^"
Fence == Backtick \o Backtick \o Backtick
Whitespace == {" ", "\n", "\t", "\r"}

IndexesOf(text, ch) == { i \in 1..Len(text) : CharAt(text, i) = ch }
Least(S) == CHOOSE i \in S : \A j \in S : i <= j
Greatest(S) == CHOOSE i \in S : \A j \in S : j <= i

\* text.substring(i - 1)
From(text, i) == SubSeq(text, i, Len(text))
StartsWith(text, t) == Len(text) >= Len(t) /\ SubSeq(text, 1, Len(t)) = t

RECURSIVE trimStart(_)
trimStart(text) ==
    IF Len(text) > 0 /\ CharAt(text, 1) \in Whitespace THEN trimStart(From(text, 2)) ELSE text
RECURSIVE trimEnd(_)
trimEnd(text) ==
    IF Len(text) > 0 /\ CharAt(text, Len(text)) \in Whitespace
    THEN trimEnd(SubSeq(text, 1, Len(text) - 1)) ELSE text
\* String.prototype.trim
trim(text) == trimEnd(trimStart(text))

\* pieces[lo] \o ... \o pieces[hi]
RECURSIVE Concat(_, _, _)
Concat(pieces, lo, hi) ==
    IF lo > hi THEN ""
    ELSE IF lo = hi THEN pieces[lo]
    ELSE Concat(pieces, lo, (lo + hi) \div 2) \o Concat(pieces, (lo + hi) \div 2 + 1, hi)
\* text.replace applied character by character: `piece` gives what every
\* position of the text is replaced by
ReplaceEach(text, piece) == Concat(piece, 1, Len(text))

\* the length of a match of /<marker>\n?/ at position i
MarkerLength(text, marker, i) ==
    Len(marker) + (IF CharAt(text, i + Len(marker)) = "\n" THEN 1 ELSE 0)
\* the positions covered by the matches of /<marker>\n?/g at or after `from`:
\* the matches are found left to right and do not overlap
RECURSIVE MarkerMatches(_, _, _)
MarkerMatches(text, marker, from) ==
    LET starts == { i \in from..Len(text) : StartsWith(From(text, i), marker) }
        i == Least(starts)
    IN  IF starts = {} THEN {}
        ELSE (i..(i + MarkerLength(text, marker, i) - 1))
                \cup MarkerMatches(text, marker, i + MarkerLength(text, marker, i))
\* text.replace(/<marker>\n?/g, "")
removeMarker(text, marker) ==
    LET matched == MarkerMatches(text, marker, 1)
    IN  ReplaceEach(text, [i \in 1..Len(text) |->
                              IF i \in matched THEN "" ELSE CharAt(text, i)])

\* lines 338-340: remove markdown code blocks
stripCodeBlocks(text) ==
    IF includes(text, Fence)
    THEN trim(removeMarker(removeMarker(text, Fence \o "json"), Fence))
    ELSE text

\* lines 343-346: text.match(/\{[\s\S]*\}/); the star is greedy, so the match
\* runs from the first "{" to the last "}" of the text
jsonMatch(text) ==
    LET opens == IndexesOf(text, "{")
        closes == IF opens = {} THEN {}
                  ELSE { i \in IndexesOf(text, "}") : i > Least(opens) }
    IN  IF closes = {} THEN text ELSE SubSeq(text, Least(opens), Greatest(closes))

\* line 350: .replace(/,(\s*[}\]])/g, "$1")
removeTrailingCommas(text) ==
    ReplaceEach(text, [i \in 1..Len(text) |->
        IF CharAt(text, i) = "," /\ CharAt(trimStart(From(text, i + 1)), 1) \in {"}", "]"}
        THEN "" ELSE CharAt(text, i)])

\* line 351: .replace(/'/g, '"')
replaceApostrophes(text) ==
    ReplaceEach(text, [i \in 1..Len(text) |->
        IF CharAt(text, i) = "'" THEN "\"" ELSE CharAt(text, i)])

\* lines 349-351: fix common JSON issues
fixCommonIssues(text) == replaceApostrophes(removeTrailingCommas(text))

\* A JSON value.  n: the number, or 1/0 for true/false; s: the characters of a
\* string; m: the members of an object (a function of its keys) or the
\* elements of an array
Json(t, n, s, m) == [t |-> t, n |-> n, s |-> s, m |-> m]
JsonUndefined == Json("undefined", 0, "", <<>>)
JsonNull == Json("null", 0, "", <<>>)
JsonBoolean(b) == Json("boolean", IF b THEN 1 ELSE 0, "", <<>>)
JsonNumber(n) == Json("number", n, "", <<>>)
JsonString(s) == Json("string", 0, s, <<>>)
JsonArray(elements) == Json("array", 0, "", elements)
JsonObject(members) == Json("object", 0, "", members)
EmptyObject == JsonObject(<<>>)

\* ToBoolean
JsonTruthy(x) ==
    CASE x.t \in {"undefined", "null"} -> FALSE
      [] x.t = "boolean" -> x.n = 1
      [] x.t = "number"  -> x.n # 0
      [] x.t = "string"  -> x.s # ""
      [] OTHER           -> TRUE

\* json[key]; reading a property of a primitive or a missing one gives undefined
Get(json, key) ==
    IF json.t = "object" /\ key \in DOMAIN json.m THEN json.m[key] ELSE JsonUndefined
\* json[key] = value on an object
Put(json, key, value) ==
    JsonObject([k \in DOMAIN json.m \cup {key} |-> IF k = key THEN value ELSE json.m[k]])

\* what a parsing step yields: whether it succeeded, the value, and the index
\* of the first character not consumed
Parsed(ok, v, i) == [ok |-> ok, v |-> v, i |-> i]
SyntaxError == Parsed(FALSE, JsonUndefined, 0)

RECURSIVE skipWhitespace(_, _)
skipWhitespace(text, i) ==
    IF CharAt(text, i) \in Whitespace THEN skipWhitespace(text, i + 1) ELSE i

\* a string literal starting at the quote at i: no escapes, no control characters
parseString(text, i) ==
    LET ends == { j \in (i + 1)..Len(text) : CharAt(text, j) = "\"" }
    IN  IF CharAt(text, i) # "\"" \/ ends = {} THEN SyntaxError
        ELSE LET j == Least(ends)
                 body == SubSeq(text, i + 1, j - 1)
             IN  IF \E k \in 1..Len(body) : CharAt(body, k) \in {"\n", "\t", "\r", "\\"}
                 THEN SyntaxError
                 ELSE Parsed(TRUE, JsonString(body), j + 1)

DigitValue(ch) == CHOOSE d \in 0..9 : ToString(d) = ch
RECURSIVE parseDigits(_, _, _)
parseDigits(text, i, acc) ==
    IF CharAt(text, i) \in Digits
    THEN parseDigits(text, i + 1, 10 * acc + DigitValue(CharAt(text, i)))
    ELSE Parsed(TRUE, JsonNumber(acc), i)
\* a number literal: non-negative integers, no leading zero
parseNumber(text, i) ==
    IF CharAt(text, i) = "0" THEN Parsed(TRUE, JsonNumber(0), i + 1)
    ELSE parseDigits(text, i, 0)

RECURSIVE parseValue(_, _)
RECURSIVE parseMembers(_, _, _)
RECURSIVE parseElements(_, _, _)

\* the members of an object after "{" or ",": a key, ":", a value, then "," or "}"
parseMembers(text, i, members) ==
    LET key == parseString(text, skipWhitespace(text, i))
        colon == skipWhitespace(text, key.i)
        value == parseValue(text, colon + 1)
        after == skipWhitespace(text, value.i)
        added == [k \in DOMAIN members \cup {key.v.s} |->
                     IF k = key.v.s THEN value.v ELSE members[k]]
    IN  IF ~key.ok \/ CharAt(text, colon) # ":" THEN SyntaxError
        ELSE IF ~value.ok THEN SyntaxError
        ELSE IF CharAt(text, after) = "," THEN parseMembers(text, after + 1, added)
        ELSE IF CharAt(text, after) = "}" THEN Parsed(TRUE, JsonObject(added), after + 1)
        ELSE SyntaxError

\* the elements of an array after "[" or ",": a value, then "," or "]"
parseElements(text, i, elements) ==
    LET value == parseValue(text, i)
        after == skipWhitespace(text, value.i)
    IN  IF ~value.ok THEN SyntaxError
        ELSE IF CharAt(text, after) = ","
        THEN parseElements(text, after + 1, Append(elements, value.v))
        ELSE IF CharAt(text, after) = "]"
        THEN Parsed(TRUE, JsonArray(Append(elements, value.v)), after + 1)
        ELSE SyntaxError

parseValue(text, i) ==
    LET j == skipWhitespace(text, i)
        ch == CharAt(text, j)
    IN  IF ch = "{"
        THEN IF CharAt(text, skipWhitespace(text, j + 1)) = "}"
             THEN Parsed(TRUE, EmptyObject, skipWhitespace(text, j + 1) + 1)
             ELSE parseMembers(text, j + 1, <<>>)
        ELSE IF ch = "["
        THEN IF CharAt(text, skipWhitespace(text, j + 1)) = "]"
             THEN Parsed(TRUE, JsonArray(<<>>), skipWhitespace(text, j + 1) + 1)
             ELSE parseElements(text, j + 1, <<>>)
        ELSE IF ch = "\"" THEN parseString(text, j)
        ELSE IF ch \in Digits THEN parseNumber(text, j)
        ELSE IF StartsWith(From(text, j), "true") THEN Parsed(TRUE, JsonBoolean(TRUE), j + 4)
        ELSE IF StartsWith(From(text, j), "false") THEN Parsed(TRUE, JsonBoolean(FALSE), j + 5)
        ELSE IF StartsWith(From(text, j), "null") THEN Parsed(TRUE, JsonNull, j + 4)
        ELSE SyntaxError

\* JSON.parse(text): one value, with nothing but whitespace around it
JSONparse(text) ==
    LET value == parseValue(text, 1)
    IN  IF value.ok /\ skipWhitespace(text, value.i) = Len(text) + 1 THEN value
        ELSE SyntaxError

\* what parseJSONResponse returned or threw
NotNormalized == [state |-> "none", json |-> JsonUndefined, error |-> ""]
NormalizeReturned(json) == [state |-> "returned", json |-> json, error |-> ""]
NormalizeThrew(msg) == [state |-> "threw", json |-> JsonUndefined, error |-> FailedToParse(msg).msg]

\* `x || y`
OrElse(x, y) == IF JsonTruthy(x) THEN x ELSE y

\* lines 369-372 on an options object; a projection that is not an object is
\* replaced by {}
defaultOptions(options, previewLimit) ==
    LET limited == Put(options, "limit", OrElse(Get(options, "limit"), JsonNumber(previewLimit)))
        projection == Get(limited, "projection")
    IN  IF JsonTruthy(projection) /\ projection.t \notin {"object", "array"}
        THEN Put(limited, "projection", EmptyObject)
        ELSE limited

\* lines 355-380: the checks and the defaults applied to the parsed value.
\* Reading a property of null and creating a property on a primitive throw a
\* TypeError (module code is strict); an array given as options keeps its
\* elements.
backfillDefaults(json, previewLimit, dbType) ==
    IF json.t = "null"
    THEN NormalizeThrew("Cannot read properties of null (reading 'action')")
    ELSE IF ~JsonTruthy(Get(json, "action"))
    THEN NormalizeThrew("Missing 'action' field in response")
    ELSE IF /\ ~JsonTruthy(Get(json, collectionField(dbType)))
            /\ ~JsonTruthy(Get(json, "collection"))
            /\ ~JsonTruthy(Get(json, "table"))
    THEN NormalizeThrew("Missing '" \o collectionField(dbType) \o "' field in response")
    ELSE IF dbType # "mongodb"
    THEN NormalizeReturned(
             Put(json, "limit", OrElse(Get(json, "limit"), JsonNumber(previewLimit))))
    ELSE LET options == OrElse(Get(json, "options"), EmptyObject)
             query == OrElse(Get(json, "query"), EmptyObject)
         IN  IF options.t \notin {"object", "array"}
             THEN NormalizeThrew("Cannot create property 'limit' on " \o options.t)
             ELSE NormalizeReturned(
                      Put(Put(json, "options",
                              IF options.t = "array" THEN options
                              ELSE defaultOptions(options, previewLimit)),
                          "query", query))

\* lines 332-346: the text handed to the repair step
candidatePayload(raw) == jsonMatch(stripCodeBlocks(trim(raw)))

\* lines 332-390
parseRawText(raw, previewLimit, dbType) ==
    LET parsed == JSONparse(fixCommonIssues(candidatePayload(raw)))
    IN  IF parsed.ok THEN backfillDefaults(parsed.v, previewLimit, dbType)
        ELSE NormalizeThrew("Unexpected token in JSON")

\* the action objects a model may answer with, as JSON text
PayloadTexts ==
    { "{\"action\":\"find\",\"collection\":\"users\"}",
      "{\"action\":\"find\",\"collection\":\"users\",\"query\":{}}",
      "{\"action\":\"find\",\"collection\":\"users\",\"query\":{\"name\":\"ann\"},\"options\":{\"limit\":7}}",
      "{\n  \"action\": \"count\",\n  \"collection\": \"orders\",\n  \"query\": {\"paid\": true}\n}",
      "{\"action\":\"aggregate\",\"collection\":\"orders\",\"pipeline\":[{\"$match\":{\"n\":1}},{\"$limit\":3}]}",
      "{\"action\":\"find\",\"table\":\"users\",\"limit\":null}",
      "{\"action\":\"find\",\"collection\":\"users\",\"query\":{\"name\":\"O'Brien\"}}",
      "{\"action\":\"find\",\"collection\":\"users\",\"query\":{\"tag\":\"a,}\"}}",
      "{\"action\":\"find\",\"collection\":\"users\",\"query\":{\"tags\":[\"x, ]\"]}}",
      "{\"collection\":\"users\",\"query\":{}}" }

\* the payload with a comma put before its last closing brace
trailingComma(payload) == SubSeq(payload, 1, Len(payload) - 1) \o ",}"
\* the payload with a comma and a line break put before every closing bracket
\* that follows a closing brace
trailingCommas(payload) ==
    ReplaceEach(payload, [i \in 1..Len(payload) |->
        IF CharAt(payload, i) = "}" /\ CharAt(payload, i + 1) = "]"
        THEN "},\n" ELSE CharAt(payload, i)])

\* the ways a model wraps its answer
Wrappings ==
    {"plain", "padded", "fenced", "fenced-json", "comma", "fenced-comma", "fenced-commas",
     "prose", "braces-before", "braces-after", "two-objects"}
Wrap(wrapping, payload) ==
    CASE wrapping = "plain"         -> payload
      [] wrapping = "padded"        -> "\n " \o payload \o " \n"
      [] wrapping = "fenced"        -> Fence \o "\n" \o payload \o "\n" \o Fence
      [] wrapping = "fenced-json"   -> Fence \o "json\n" \o payload \o "\n" \o Fence
      [] wrapping = "comma"         -> trailingComma(payload)
      [] wrapping = "fenced-comma"  ->
            Fence \o "json\n" \o trailingComma(payload) \o "\n" \o Fence
      [] wrapping = "fenced-commas" ->
            Fence \o "\n" \o trailingCommas(trailingComma(payload)) \o "\n" \o Fence \o "\n"
      [] wrapping = "prose"         -> "Here is the query: " \o payload \o " Hope it helps."
      [] wrapping = "braces-before" -> "Fill {name} in: " \o payload
      [] wrapping = "braces-after"  -> payload \o "\nReplace {name} as needed."
      [] wrapping = "two-objects"   ->
            payload \o " or " \o "{\"action\":\"count\",\"collection\":\"users\"}"

NoWriting == [payload |-> "", wrapping |-> "none", previewLimit |-> 0, dbType |-> "none"]

\* one call of parseJSONResponse on a raw text
NormalizeCall ==
    /\ normalized = NotNormalized
    /\ written' \in [payload : PayloadTexts, wrapping : Wrappings,
                     previewLimit : PreviewLimits, dbType : DbTypes]
    /\ rawText' = Wrap(written'.wrapping, written'.payload)
    /\ candidate' = candidatePayload(rawText')
    /\ normalized' = parseRawText(rawText', written'.previewLimit, written'.dbType)
    /\ UNCHANGED notNormVars

NextNormalize == NormalizeCall

(***************************************************************************)
(* Specifications                                                          *)
(***************************************************************************)
\* the execute endpoint handling one request
Init ==
    /\ pc = "idle"
    /\ req = NoRequest
    /\ sort = SortUndefined
    /\ client = "null"
    /\ opened = 0
    /\ closeCalls = 0
    /\ dbCalls = <<>>
    /\ warnings = {}
    /\ validation = NoValidation
    /\ response = NoResponse
    /\ dbMetadataCache = EmptyCache
    /\ clock = TickMs
    /\ calls = [c \in Callers |-> IdleCall]
    /\ scans = 0
    /\ produced = 0
    /\ cleared = {}
    /\ storedAt = 0
    /\ overtaken = {}
    /\ env = [GEMINI_API_KEY |-> FALSE, OPENAI_API_KEY |-> FALSE]
    /\ orchPc = "idle"
    /\ attempt = 0
    /\ lastError = NoError
    /\ geminiError = NoError
    /\ orchResult = NoResult
    /\ geminiLog = <<>>
    /\ openaiLog = <<>>
    /\ waits = <<>>
    /\ vInput = ValidatorInput("undefined", NoAction)
    /\ vOutcome = NotCalled
    /\ tPc = "idle"
    /\ tReq = NoTranslateRequest
    /\ schemaUsed = FALSE
    /\ inflight = NoFetch
    /\ fetches = <<>>
    /\ probe = "none"
    /\ completion = NoCompletion
    /\ parseResult = NotParsed
    /\ tValidation = NoValidation
    /\ tResponse = NoTranslateResponse
    /\ scanPc = "idle"
    /\ scanClient = "null"
    /\ collections = <<>>
    /\ colIndex = 0
    /\ dbInfo = <<>>
    /\ analysed = <<>>
    /\ scanReturn = NoScanReturn
    /\ documents = <<>>
    /\ schema = NoSchema
    /\ written = NoWriting
    /\ rawText = ""
    /\ candidate = ""
    /\ normalized = NotNormalized

\* The executor taken on its own: the handler stands at the branch chain with a
\* connected client and an arbitrary action, whatever validateAction said of it.
InitDispatch ==
    /\ pc = "connected"
    /\ req \in { r \in Requests : r.uri # "" /\ r.hasAction /\ r.action.options = "undefined" }
    /\ sort = SortUndefined
    /\ client = "connected"
    /\ opened = 1
    /\ closeCalls = 0
    /\ dbCalls = <<>>
    /\ warnings = {}
    /\ validation = validateAction(req.action)
    /\ response = NoResponse
    /\ dbMetadataCache = EmptyCache
    /\ clock = TickMs
    /\ calls = [c \in Callers |-> IdleCall]
    /\ scans = 0
    /\ produced = 0
    /\ cleared = {}
    /\ storedAt = 0
    /\ overtaken = {}
    /\ env = [GEMINI_API_KEY |-> FALSE, OPENAI_API_KEY |-> FALSE]
    /\ orchPc = "idle"
    /\ attempt = 0
    /\ lastError = NoError
    /\ geminiError = NoError
    /\ orchResult = NoResult
    /\ geminiLog = <<>>
    /\ openaiLog = <<>>
    /\ waits = <<>>
    /\ vInput = ValidatorInput("undefined", NoAction)
    /\ vOutcome = NotCalled
    /\ tPc = "idle"
    /\ tReq = NoTranslateRequest
    /\ schemaUsed = FALSE
    /\ inflight = NoFetch
    /\ fetches = <<>>
    /\ probe = "none"
    /\ completion = NoCompletion
    /\ parseResult = NotParsed
    /\ tValidation = NoValidation
    /\ tResponse = NoTranslateResponse
    /\ scanPc = "idle"
    /\ scanClient = "null"
    /\ collections = <<>>
    /\ colIndex = 0
    /\ dbInfo = <<>>
    /\ analysed = <<>>
    /\ scanReturn = NoScanReturn
    /\ documents = <<>>
    /\ schema = NoSchema
    /\ written = NoWriting
    /\ rawText = ""
    /\ candidate = ""
    /\ normalized = NotNormalized

Next == NextExec
Spec == Init /\ [][Next]_vars
SpecDispatch == InitDispatch /\ [][NextDispatch]_vars
\* the schema cache under concurrent callers
SpecCache == Init /\ [][NextCache]_vars
\* the orchestrator handling one instruction
SpecOrch == Init /\ [][NextOrch]_vars
\* the same, where every provider call settles and every backoff timer fires
SpecOrchFair == SpecOrch /\ WF_vars(NextOrch)
\* validateAction called once with any value
SpecValidate == Init /\ [][NextValidate]_vars
\* the translate endpoint handling one request
SpecTranslate == Init /\ [][NextTranslate]_vars
\* one scan of a database
SpecScan == Init /\ [][NextScan]_vars
\* inferSchema applied to a sample
SpecInfer == Init /\ [][NextInfer]_vars
\* parseJSONResponse applied to a raw text
SpecNormalize == Init /\ [][NextNormalize]_vars

(***************************************************************************)
(* Properties of the execute endpoint and the validator                    *)
(***************************************************************************)
\* an empty ({}) or absent filter
IsEmptyFilter(q) == q.t \in {"undefined", "null"} \/ (q.t = "object" /\ q.keys = {})
\* a request asking for a write over a whole collection
WholeCollectionWrite(r) ==
    r.hasAction /\ r.action.action \in {"update", "delete"} /\ IsEmptyFilter(r.action.query)

\* C1: no updateMany and no deleteMany is ever issued with an empty or absent
\* query; a request asking for one ends in an error response and no call at all
\* has been issued to the database.
C1_NoEmptyFilterWrite ==
    /\ \A i \in 1..Len(dbCalls) :
          dbCalls[i].op \in {"updateMany", "deleteMany"} => ~IsEmptyFilter(dbCalls[i].query)
    /\ (pc # "idle" /\ WholeCollectionWrite(req)) =>
          /\ dbCalls = <<>>
          /\ opened = 0
          /\ pc = "done" => (~response.ok /\ response.status = 400)

C1_Witness ==
    /\ pc = "done"
    /\ req.uri # ""
    /\ req.action.collection # ""
    /\ req.action.action = "update"
    /\ req.action.query = JsObject({})
    /\ response.status = 400
    /\ dbCalls = <<>>

\* C2: for an action 'delete' or 'update' whose query is absent, null or an
\* object without keys, validateAction returns valid = false and its errors
\* contain the matching BLOCKED message.
C2_EmptyQueryRejected ==
    (pc = "done" /\ req.uri # "" /\ WholeCollectionWrite(req)) =>
        /\ ~validation.valid
        /\ \E i \in 1..Len(validation.errors) :
              validation.errors[i] =
                  IF req.action.action = "delete" THEN DeleteBlocked ELSE UpdateBlocked

C2_Witness ==
    /\ pc = "done"
    /\ req.uri # ""
    /\ req.action.action = "delete"
    /\ req.action.collection = "users"
    /\ req.action.query = JsNull
    /\ validation.errors = <<DeleteBlocked>>

\* C3: whenever the executor's delete branch is reached with an empty or absent
\* query, whatever validateAction returned, it issues no deleteMany call.
C3_DeleteGate ==
    \A i \in 1..Len(dbCalls) :
        dbCalls[i].op = "deleteMany" => ~IsEmptyFilter(dbCalls[i].query)

\* C4: a request opens at most one connection, and a connection it opened has
\* been closed (close() called on the client) when the response is returned, on
\* the success path and on every failure path.
C4_ConnectionClosed ==
    /\ opened <= 1
    /\ (opened = 0) = (client = "null")
    /\ response # NoResponse =>
          (opened = 1 => (client = "closed" /\ closeCalls >= 1))

C4_Witness ==
    /\ response.status = 500
    /\ opened = 1
    /\ client = "closed"
    /\ Len(dbCalls) = 1

\* the sort map the executor must send for the map m of the request
CorrectedSort(m) ==
    [f \in DOMAIN m |-> IF m[f] \in {SortNumber(1), SortNumber(-1)} THEN m[f] ELSE SortNumber(1)]

\* C5: every sort value passed to the database is exactly 1 or -1; the entries
\* of options.sort that are neither are replaced by 1, each with a warning,
\* before any database call, and the entries equal to 1 or -1 are unchanged.
C5_SortValues ==
    /\ \A i \in 1..Len(dbCalls) : \A f \in DOMAIN dbCalls[i].sort :
          dbCalls[i].sort[f] \in {SortNumber(1), SortNumber(-1)}
    /\ (validation.valid /\ req.action.options = "object" /\ req.action.sort.t = "object") =>
          /\ sort = SortMap(CorrectedSort(req.action.sort.m))
          /\ warnings = { f \in DOMAIN req.action.sort.m :
                            req.action.sort.m[f] \notin {SortNumber(1), SortNumber(-1)} }
          /\ \A i \in 1..Len(dbCalls) :
                dbCalls[i].op = "find" => dbCalls[i].sort = CorrectedSort(req.action.sort.m)

C5_Witness ==
    /\ response.status = 200
    /\ Len(dbCalls) = 1
    /\ dbCalls[1].op = "find"
    /\ req.action.sort = SortMap([f \in {"name", "age"} |->
                                    IF f = "name" THEN SortString(1) ELSE SortNumber(-1)])
    /\ dbCalls[1].sort = [f \in {"name", "age"} |->
                            IF f = "name" THEN SortNumber(1) ELSE SortNumber(-1)]
    /\ warnings = {"name"}

(***************************************************************************)
(* Properties of the schema cache                                          *)
(***************************************************************************)
\* C6: the snapshot getCached(uri, forceRefresh) returns was produced by a scan
\* of that same uri, never by a scan of another uri.
C6_SnapshotOfSameUri ==
    \A c \in Callers : calls[c].pc = "returned" => calls[c].result.uri = calls[c].uri

\* a step in which caller c begins a call without forceRefresh
BeginsUnforced(c) ==
    calls[c].pc = "idle" /\ calls'[c].pc # "idle" /\ ~calls'[c].forceRefresh
\* a step in which caller c answers from the cache without scanning
AnswersFromCache(c) ==
    /\ calls'[c].pc = "returned"
    /\ calls'[c].result = dbMetadataCache.data
    /\ ~calls'[c].scanned
    /\ scans' = scans

\* C7 as stated: a call without forceRefresh made less than the ttl after the
\* cached snapshot was stored, with no clear since, returns that snapshot and
\* performs no scan.
C7_FreshSinceStored ==
    [][\A c \in Callers :
          (BeginsUnforced(c) /\ dbMetadataCache.data # NullSnapshot
              /\ clock - storedAt < ttl) => AnswersFromCache(c)]_vars

\* C7 as amended: a call without forceRefresh made less than the ttl after the
\* stored timestamp returns the cached snapshot object and performs no scan;
\* the stored timestamp is the clock read when the storing call began, which is
\* never later than the moment the snapshot was stored.
C7_FreshSinceTimestamp ==
    [][/\ \A c \in Callers :
             (BeginsUnforced(c) /\ dbMetadataCache.data # NullSnapshot
                 /\ clock - dbMetadataCache.timestamp < ttl) => AnswersFromCache(c)
       /\ \A c \in Callers :
             (calls[c].pc = "scanning" /\ calls'[c].pc = "returned") =>
                 /\ dbMetadataCache'.timestamp = calls[c].now
                 /\ dbMetadataCache'.timestamp <= storedAt']_vars

C7_Witness ==
    /\ calls[1].pc = "returned" /\ calls[1].scanned /\ calls[1].result.id = 1
    /\ calls[2].pc = "returned" /\ ~calls[2].scanned /\ ~calls[2].forceRefresh
    /\ calls[2].result = calls[1].result
    /\ calls[2].uri = calls[1].uri
    /\ calls[2].now > storedAt
    /\ scans = 1

\* C8: a call with forceRefresh = true always performs a new scan, even when
\* an unexpired entry exists; when that scan succeeds the cache entry is
\* replaced by the new snapshot.
C8_ForceRefreshScans ==
    [][\A c \in Callers :
          /\ (calls[c].pc = "idle" /\ calls'[c].pc # "idle" /\ calls'[c].forceRefresh) =>
                (calls'[c].pc = "scanning" /\ calls'[c].scanned /\ scans' = scans + 1)
          /\ (calls[c].pc = "scanning" /\ calls'[c].pc = "returned") =>
                /\ dbMetadataCache'.data = calls'[c].result
                /\ calls'[c].result.id > produced
                /\ calls'[c].result # dbMetadataCache.data]_vars

C8_Witness ==
    \E c \in Callers :
        /\ calls[c].pc = "returned"
        /\ calls[c].forceRefresh
        /\ calls[c].saw = "fresh"
        /\ calls[c].scanned
        /\ calls[c].result.id = 2
        /\ dbMetadataCache.data = calls[c].result

RateLimited(o) ==
    ~o.resolved /\ (includes(o.error.msg, "429") \/ includes(o.error.msg, "quota"))
\* the call resolved with a completion that parses to an action
Succeeded(o) == o.resolved /\ o.completion.kind = "action"

\* C10: when Gemini raises a rate-limit error on its first two attempts and
\* succeeds on the third, the orchestrator returns the action parsed from that
\* third completion and OpenAI is never called; after the two rate-limit
\* errors the third attempt is made on Gemini.
C10_ThirdAttemptWins ==
    (Len(geminiLog) >= 2 /\ RateLimited(geminiLog[1]) /\ RateLimited(geminiLog[2])) =>
        /\ openaiLog = <<>> \/ Len(geminiLog) = 3
        /\ Len(geminiLog) = 2 => (orchPc \in {"backoff", "gemini"} /\ ~orchResult.done)
        /\ (Len(geminiLog) = 3 /\ Succeeded(geminiLog[3])) =>
              /\ orchPc = "done"
              /\ orchResult = Returned(ParsedAction(geminiLog[3].completion))
              /\ openaiLog = <<>>
              /\ waits = <<BackoffMs, 2 * BackoffMs>>

C10_Witness ==
    /\ Len(geminiLog) = 3
    /\ RateLimited(geminiLog[1])
    /\ RateLimited(geminiLog[2])
    /\ geminiLog[3] = Resolved(Completion(2, "action"))
    /\ orchResult = Returned(ParsedAction(Completion(2, "action")))
    /\ openaiLog = <<>>

\* the attempt failed: the call was rejected or its completion did not parse
Failed(o) == ~o.resolved \/ ~parseJSONResponse(o.completion).ok
\* the error the attempt's catch block received
Failure(o) == IF o.resolved THEN parseJSONResponse(o.completion).err ELSE o.error
\* the message carries a rate-limit signal
RateLimitSignal(msg) == includes(msg, "429") \/ includes(msg, "quota")
\* the provider failed before or at its last call
GeminiFailed ==
    \/ geminiLog = <<>> /\ ~env.GEMINI_API_KEY
    \/ geminiLog # <<>> /\ Failed(geminiLog[Len(geminiLog)])
OpenAIFailed ==
    \/ openaiLog = <<>> /\ ~env.OPENAI_API_KEY
    \/ openaiLog # <<>> /\ Failed(openaiLog[Len(openaiLog)])

\* C11: a Gemini attempt that fails with an error whose message contains
\* neither "429" nor "quota" is the last Gemini attempt: no backoff follows it,
\* the fallback to OpenAI is entered at once with that error as Gemini's, and
\* OpenAI is called only after Gemini has failed.
C11_FallThrough ==
    /\ \A i \in 1..Len(geminiLog) :
          (Failed(geminiLog[i]) /\ ~RateLimitSignal(Failure(geminiLog[i]).msg)) =>
              /\ i = Len(geminiLog)
              /\ Len(waits) = i - 1
              /\ orchPc \in {"openai", "done"}
              /\ geminiError = Failure(geminiLog[i])
              /\ orchPc = "done" => (openaiLog # <<>> \/ ~env.OPENAI_API_KEY)
    /\ openaiLog # <<>> => (GeminiFailed /\ geminiError # NoError)
    /\ orchPc = "openai" => (GeminiFailed /\ openaiLog = <<>>)

C11_Witness ==
    /\ geminiLog = <<Rejected(Error("503 Service Unavailable"))>>
    /\ waits = <<>>
    /\ openaiLog = <<Resolved(Completion(1, "action"))>>
    /\ orchResult = Returned(ParsedAction(Completion(1, "action")))

\* C12: parseUserInstruction throws only after Gemini and OpenAI have both
\* failed (a provider without a key fails without a call), and the message
\* thrown contains the message of each provider's last failure; otherwise it
\* returns the action parsed from the last completion of the provider that
\* answered, never an empty or default action.
C12_AggregateFailure ==
    orchResult.done =>
        IF orchResult.ok
        THEN /\ orchResult.action # NoParsedAction
             /\ \E c \in Completions :
                   /\ c.kind = "action"
                   /\ orchResult.action = ParsedAction(c)
                   /\ IF openaiLog # <<>>
                      THEN openaiLog[Len(openaiLog)] = Resolved(c)
                      ELSE geminiLog # <<>> /\ geminiLog[Len(geminiLog)] = Resolved(c)
        ELSE /\ GeminiFailed
             /\ OpenAIFailed
             /\ IF geminiLog = <<>>
                THEN includes(orchResult.error.msg, "GEMINI_API_KEY missing in environment")
                ELSE includes(orchResult.error.msg, Failure(geminiLog[Len(geminiLog)]).msg)
             /\ IF openaiLog = <<>>
                THEN includes(orchResult.error.msg, "OPENAI_API_KEY missing in environment")
                ELSE includes(orchResult.error.msg, Failure(openaiLog[Len(openaiLog)]).msg)

C12_Witness ==
    /\ orchResult.done /\ ~orchResult.ok
    /\ Len(geminiLog) = maxRetries
    /\ geminiLog[maxRetries] = Rejected(Error("You exceeded your current quota"))
    /\ openaiLog = <<Rejected(Error("503 Service Unavailable"))>>
    /\ includes(orchResult.error.msg, "You exceeded your current quota")
    /\ includes(orchResult.error.msg, "503 Service Unavailable")

\* what C13 bounds: attempts, waits and the report after the last attempt
C13_BoundedRetries ==
    /\ Len(geminiLog) <= maxRetries
    /\ \A k \in 1..Len(waits) :
          /\ waits[k] = k * BackoffMs
          /\ k <= Len(geminiLog)
          /\ Failed(geminiLog[k]) /\ RateLimitSignal(Failure(geminiLog[k]).msg)
    /\ \A k \in 1..Len(geminiLog) :
          (Failed(geminiLog[k]) /\ RateLimitSignal(Failure(geminiLog[k]).msg)) =>
              Len(waits) >= k
    /\ ( /\ Len(geminiLog) = maxRetries
         /\ Failed(geminiLog[maxRetries])
         /\ RateLimitSignal(Failure(geminiLog[maxRetries]).msg)
         /\ orchPc # "backoff" ) =>
            /\ includes(geminiError.msg, "failed after retries")
            /\ orchPc \in {"openai", "done"}
            /\ orchPc = "done" => (openaiLog # <<>> \/ ~env.OPENAI_API_KEY)

\* C13: Gemini is attempted at most maxRetries = 3 times per instruction; the
\* wait after the k-th rate-limited attempt is k * 2000 ms; after the third
\* rate-limited attempt Gemini is reported as "failed after retries" and the
\* fallback to OpenAI is entered; and when calls settle and timers fire, the
\* retry loop is always left.
C13_RetryLoopTerminates ==
    /\ []C13_BoundedRetries
    /\ (orchPc = "gemini") ~> (orchPc \in {"openai", "done"})

C13_Witness ==
    /\ Len(geminiLog) = maxRetries
    /\ \A k \in 1..maxRetries : geminiLog[k] = Rejected(Error("429 Too Many Requests"))
    /\ waits = <<BackoffMs, 2 * BackoffMs, 3 * BackoffMs>>
    /\ geminiError = Error("Gemini failed after retries: 429 Too Many Requests")
    /\ openaiLog = <<Resolved(Completion(2, "action"))>>

(***************************************************************************)
(* Properties of the translate endpoint, the Ollama variant and the        *)
(* validator called on its own                                             *)
(***************************************************************************)
\* C14: a provider call that is awaited while the provider never answers has
\* a timeout armed, so that the wait ends and the request completes.
C14_HungCallBounded ==
    (inflight.url # "none" /\ inflight.silent) => inflight.timeoutMs > 0

\* the probe of /api/tags ended without an OK response
ProbeFailed == probe \in {"status", "network", "timeout"}

\* C15: when the probe answers with a non-OK status, is rejected, or is
\* aborted by its 3 s timeout, no generate request is sent for this request
\* and parseUserInstruction throws the "Ollama is not running" error; no
\* action is returned and the endpoint answers with a failure.
C15_FailedProbeSkipsGenerate ==
    ProbeFailed =>
        /\ fetches = <<TagsUrl>>
        /\ inflight = NoFetch
        /\ completion = NoCompletion
        /\ parseResult.done /\ ~parseResult.ok
        /\ parseResult.action = NoPayload
        /\ includes(parseResult.error.msg, "Ollama is not running")
        /\ tPc = "done"
        /\ ~tResponse.ok /\ tResponse.status = 500

C15_Witness ==
    /\ probe = "timeout"
    /\ fetches = <<TagsUrl>>
    /\ parseResult = ParseThrew(NotRunning)
    /\ tPc = "done"

\* C16: a call of validateAction never throws, whatever value it is given.
C16_NeverThrows == vOutcome.called => ~vOutcome.threw

\* C17: validateAction returns valid = true only for an object whose action
\* is one of find, insert, update, delete, aggregate and whose collection is
\* present; every other action value yields valid = false.
C17_ClosedEnum ==
    (vOutcome.called /\ ~vOutcome.threw) =>
        /\ vOutcome.result.valid =>
              /\ vInput.t = "object"
              /\ vInput.action.action \in {"find", "insert", "update", "delete", "aggregate"}
              /\ vInput.action.collection # ""
        /\ vInput.action.action \notin {"find", "insert", "update", "delete", "aggregate"} =>
              ~vOutcome.result.valid

C17_Witness ==
    /\ vOutcome.called /\ ~vOutcome.threw
    /\ vOutcome.result.valid
    /\ vInput.action.action = "aggregate"
    /\ vInput.action.collection = "users"

\* C18: the translate endpoint answers ok = true only with the action that
\* parseUserInstruction returned and validateAction found valid; when the
\* validation fails it answers 400, not ok, with every validation error in
\* its error text, and the only action it may carry is the rejected one.
C18_OnlyValidatedActions ==
    /\ tResponse.ok =>
          /\ parseResult.ok
          /\ tValidation = validateAction(parseResult.action)
          /\ tValidation.valid
          /\ tResponse.status = 200
          /\ tResponse.action = parseResult.action
    /\ (parseResult.ok /\ ~validateAction(parseResult.action).valid) =>
          /\ tResponse.status = 400
          /\ ~tResponse.ok
          /\ \A i \in 1..Len(validateAction(parseResult.action).errors) :
                includes(tResponse.error, validateAction(parseResult.action).errors[i])
          /\ tResponse.action \in {parseResult.action, NoPayload}

C18_Witness ==
    /\ parseResult.ok
    /\ parseResult.action.action = "delete"
    /\ parseResult.action.query = JsObject({})
    /\ tResponse.status = 400
    /\ ~tResponse.ok
    /\ includes(tResponse.error, DeleteBlocked)

\* the model supplied a limit: options is an object with a numeric limit
LimitSupplied(json) == json.options.t = "object" /\ json.options.limit.t = "number"
\* the model supplied a query: the payload has one that is not null
QuerySupplied(json) == json.query.t \notin {"undefined", "null"}

\* C19: when the payload of a MongoDB request is accepted, options.limit of
\* the returned action is the limit the model supplied if it supplied one and
\* previewLimit otherwise, and query is the query the model supplied if it
\* supplied one and the empty filter otherwise.
C19_BackfillOnlyAbsent ==
    (completion.kind = "json" /\ parseResult.ok /\ tReq.dbType = "mongodb") =>
        /\ parseResult.action.options.limit =
              IF LimitSupplied(completion.json)
              THEN completion.json.options.limit
              ELSE JsNumber(tReq.previewLimit)
        /\ parseResult.action.query =
              IF QuerySupplied(completion.json) THEN completion.json.query ELSE JsObject({})

\* C20 as stated: an action is returned only if the payload has an action and
\* a collection.
C20_RequiresActionAndCollection ==
    (completion.kind = "json" /\ parseResult.ok) =>
        (completion.json.action # "" /\ completion.json.collection # "")

\* C20: an action is returned only if the payload has an action and a
\* collection or a table; when the action is missing, or collection and table
\* are both missing, parseJSONResponse throws an error whose message names the
\* missing field ('action'; 'collection' for MongoDB, 'table' otherwise), no
\* action is returned and the endpoint answers with a failure without action.
C20_RequiresActionAndCollectionOrTable ==
    completion.kind = "json" =>
        /\ parseResult.ok =>
              /\ completion.json.action # ""
              /\ completion.json.collection # "" \/ completion.json.table # ""
              /\ parseResult.action.action = completion.json.action
              /\ parseResult.action.collection = completion.json.collection
              /\ parseResult.action.table = completion.json.table
        /\ completion.json.action = "" =>
              /\ parseResult.done /\ ~parseResult.ok
              /\ parseResult.action = NoPayload
              /\ includes(parseResult.error.msg, "Missing 'action' field")
              /\ ~tResponse.ok /\ tResponse.action = NoPayload
        /\ ( /\ completion.json.action # ""
             /\ completion.json.collection = ""
             /\ completion.json.table = "" ) =>
              /\ parseResult.done /\ ~parseResult.ok
              /\ parseResult.action = NoPayload
              /\ includes(parseResult.error.msg,
                          IF tReq.dbType = "mongodb"
                          THEN "Missing 'collection' field"
                          ELSE "Missing 'table' field")
              /\ ~tResponse.ok /\ tResponse.action = NoPayload

C20_Witness ==
    /\ completion.kind = "json"
    /\ completion.json.action = "find"
    /\ completion.json.collection = ""
    /\ completion.json.table = ""
    /\ tReq.dbType = "mongodb"
    /\ ~parseResult.ok
    /\ includes(parseResult.error.msg, "Missing 'collection' field in response")
    /\ tResponse.status = 500

(***************************************************************************)
(* Properties of the schema cache under overlapping calls                  *)
(***************************************************************************)
\* C26: cache refresh is not single-flight: every call that finds the cache
\* missing, expired or bypassed starts a scan of its own, also while another
\* caller's scan is in flight, and every call that scanned returns the snapshot
\* its own scan produced, which no other caller's scan produced.
C26_NotSingleFlight ==
    [][\A c \in Callers :
          /\ (calls[c].pc = "idle" /\ calls'[c].pc # "idle"
                /\ (calls'[c].forceRefresh \/ CacheLooks(dbMetadataCache, clock) # "fresh")) =>
                (calls'[c].pc = "scanning" /\ calls'[c].scanned /\ scans' = scans + 1)
          /\ (calls[c].pc = "scanning" /\ calls'[c].pc = "returned") =>
                /\ produced' = produced + 1
                /\ calls'[c].result = Snapshot(produced', calls[c].uri)
                /\ \A d \in Callers \ {c} :
                      calls'[d].scanned => calls'[d].result # calls'[c].result]_vars

\* both callers found the cache empty before either scan had stored anything,
\* both scanned the same uri, and each returned its own snapshot
C26_Witness ==
    /\ cleared = {}
    /\ calls[1].pc = "returned" /\ calls[1].scanned /\ calls[1].saw = "empty"
    /\ calls[2].pc = "returned" /\ calls[2].scanned /\ calls[2].saw = "empty"
    /\ calls[1].uri = calls[2].uri
    /\ calls[1].result.id = 1 /\ calls[2].result.id = 2
    /\ scans = 2

\* C28: when the scan inside getCachedDBMetadata fails, the call throws and
\* the cache entry (snapshot and timestamp) is what it was before the failure;
\* an unexpired entry is still served to a later call without forceRefresh.
C28_FailedScanKeepsEntry ==
    [][/\ \A c \in Callers :
             (calls[c].pc = "scanning" /\ calls'[c].pc \notin {"scanning", "returned"}) =>
                 /\ calls'[c].pc = "threw"
                 /\ calls'[c].result = NullSnapshot
                 /\ dbMetadataCache' = dbMetadataCache
       /\ \A c, d \in Callers :
             (calls[c].pc = "threw" /\ BeginsUnforced(d)
                 /\ CacheLooks(dbMetadataCache, clock) = "fresh") =>
                 AnswersFromCache(d)]_vars

\* caller 1's forced scan failed while snapshot 1 was cached and unexpired;
\* caller 2 was then answered with snapshot 1 without scanning
C28_Witness ==
    /\ calls[1].pc = "threw" /\ calls[1].saw = "fresh" /\ calls[1].forceRefresh
    /\ dbMetadataCache.data.id = 1
    /\ calls[2].pc = "returned" /\ ~calls[2].scanned /\ ~calls[2].forceRefresh
    /\ calls[2].result = dbMetadataCache.data
    /\ calls[2].now > calls[1].now
    /\ produced = 1

\* C29: a call whose scan was in flight when clearDBMetadataCache ran does not
\* store its result in the cache when the scan resolves.
C29_ClearedStaysCleared ==
    [][\A c \in Callers :
          (c \in overtaken /\ calls[c].pc = "scanning" /\ calls'[c].pc = "returned") =>
              dbMetadataCache'.data # calls'[c].result]_vars

(***************************************************************************)
(* Ordering of validation and connection in the execute endpoint           *)
(***************************************************************************)
\* C27: in an execute request the connection is opened only after the uri is
\* present, the action is present and validateAction has returned valid = true;
\* a request answered with status 400 has opened no connection and issued no
\* database operation.
C27_ValidatedBeforeConnect ==
    /\ (pc = "connecting" \/ opened > 0 \/ client # "null" \/ dbCalls # <<>>) =>
          /\ req.uri # ""
          /\ req.hasAction
          /\ validation # NoValidation
          /\ validation.valid
          /\ validation.errors = <<>>
    /\ response.status = 400 =>
          /\ opened = 0
          /\ client = "null"
          /\ dbCalls = <<>>
          /\ closeCalls = 0

\* a validated request has opened its connection and issued its operation
C27_Witness ==
    /\ opened = 1
    /\ Len(dbCalls) = 1
    /\ req.uri # "" /\ req.hasAction
    /\ validation # NoValidation /\ validation.valid
    /\ response.status = 200

(***************************************************************************)
(* Properties of scanDatabase and inferSchema                              *)
(***************************************************************************)
\* the positions of the collections whose three calls all resolved
Analysed == { i \in DOMAIN analysed : analysed[i] = "none" }
\* the names of the entries of a snapshot, in order
InfoNames(infos) == [i \in DOMAIN infos |-> infos[i].name]
\* the listed names whose analysis succeeded, in listing order
RECURSIVE NamesKept(_, _)
NamesKept(names, ends) ==
    IF names = <<>> THEN <<>>
    ELSE (IF Head(ends) = "none" THEN <<Head(names)>> ELSE <<>>)
            \o NamesKept(Tail(names), Tail(ends))

\* C23: a scan degrades per collection: a collection whose sampling, counting
\* or index listing failed is left out of the snapshot and the loop goes on;
\* the snapshot returned holds exactly the other collections, in listing
\* order, and totalCollections is the number of collections it holds.
C23_DegradesPerCollection ==
    /\ [](scanReturn.state = "returned" =>
            /\ Len(analysed) = Len(collections)
            /\ InfoNames(scanReturn.collections) = NamesKept(collections, analysed)
            /\ scanReturn.totalCollections = Cardinality(Analysed)
            /\ scanReturn.totalCollections = Len(scanReturn.collections))
    /\ [][Len(analysed') > Len(analysed) =>
            /\ scanPc' = "looping"
            /\ scanReturn' = NoScanReturn
            /\ IF analysed'[Len(analysed')] = "none"
               THEN /\ Len(dbInfo') = Len(dbInfo) + 1
                    /\ dbInfo'[Len(dbInfo')].name = collections[Len(analysed')]
               ELSE dbInfo' = dbInfo]_vars

\* two collections were listed, counting failed for the first, and the scan
\* returned a snapshot that holds only the second
C23_Witness ==
    /\ scanReturn.state = "returned"
    /\ Len(collections) = 2
    /\ analysed = <<"countDocuments", "none">>
    /\ InfoNames(scanReturn.collections) = <<collections[2]>>
    /\ scanReturn.totalCollections = 1

\* the keys of all sampled documents
SampledKeys(docs) == { Entries(docs)[i][1] : i \in DOMAIN Entries(docs) }
\* the position at which a key is first seen
FirstSeen(docs, key) ==
    CHOOSE i \in DOMAIN Entries(docs) :
        /\ Entries(docs)[i][1] = key
        /\ \A j \in 1..(i - 1) : Entries(docs)[j][1] # key

\* C24: for every schema inferSchema produces, fields holds exactly the keys
\* of the sampled documents, each once and in first-seen order, and every key
\* of fieldTypes and of sampleValues is in fields.
C24_FieldsAreTheKeys ==
    schema # NoSchema =>
        LET fields == schema.fields
            fieldSet == { fields[i] : i \in DOMAIN fields }
        IN  /\ fieldSet = SampledKeys(documents)
            /\ \A i, j \in DOMAIN fields : fields[i] = fields[j] => i = j
            /\ \A i, j \in DOMAIN fields :
                  i < j => FirstSeen(documents, fields[i]) < FirstSeen(documents, fields[j])
            /\ DOMAIN schema.fieldTypes \subseteq fieldSet
            /\ DOMAIN schema.sampleValues \subseteq fieldSet

\* both keys recur, "b" is seen first, and "b" never has a non-null value
C24_Witness ==
    /\ schema # NoSchema
    /\ Len(documents) = 2
    /\ Len(documents[1]) = 2 /\ documents[1][1][1] = "b"
    /\ Len(documents[2]) = 2 /\ documents[2][1][1] = "a"
    /\ schema.fields = <<"b", "a">>
    /\ DOMAIN schema.fieldTypes = {"a", "b"}
    /\ DOMAIN schema.sampleValues = {"a"}

\* the first non-null value of a key, in sample order
HasNonNull(docs, key) ==
    \E i \in DOMAIN Entries(docs) : Entries(docs)[i][1] = key /\ Entries(docs)[i][2].t # "null"
FirstNonNull(docs, key) ==
    Entries(docs)[CHOOSE i \in DOMAIN Entries(docs) :
        /\ Entries(docs)[i][1] = key /\ Entries(docs)[i][2].t # "null"
        /\ \A j \in 1..(i - 1) :
              ~(Entries(docs)[j][1] = key /\ Entries(docs)[j][2].t # "null")][2]

\* C25: for every field with a non-null value in the sample, sampleValues
\* holds the formatted first non-null value of that field in sample order,
\* whatever that value is (0, false and "" included).
C25_FirstNonNullSample ==
    schema # NoSchema =>
        \A key \in SampledKeys(documents) :
            HasNonNull(documents, key) =>
                /\ key \in DOMAIN schema.sampleValues
                /\ schema.sampleValues[key] =
                      formatSampleValue(FirstNonNull(documents, key),
                                        getFieldType(FirstNonNull(documents, key)))

(***************************************************************************)
(* Properties of the response normalizer on raw text                       *)
(***************************************************************************)
\* position i of the text lies inside a double-quoted string
InsideString(text, i) ==
    Cardinality({ j \in 1..(i - 1) : CharAt(text, j) = "\"" }) % 2 = 1
\* the braces of the text that are not inside a string
Braces(text, ch) == { i \in IndexesOf(text, ch) : ~InsideString(text, i) }
\* the first balanced {...} span of a text: from the first "{" to the "}"
\* that closes it; the text itself if there is none
FirstBalancedSpan(text) ==
    LET opens == Braces(text, "{")
        closing == IF opens = {} THEN {}
                   ELSE { i \in Braces(text, "}") :
                            /\ i > Least(opens)
                            /\ Cardinality({ j \in opens : j < i })
                                  = Cardinality({ j \in Braces(text, "}") : j <= i }) }
    IN  IF closing = {} THEN text ELSE SubSeq(text, Least(opens), Least(closing))

\* C21: the candidate payload taken from the raw text is its first balanced
\* {...} span: it starts at the first "{" and ends at the "}" that closes it,
\* leaving out later text and later brace groups.
C21_FirstBalancedSpan ==
    normalized # NotNormalized =>
        candidate = FirstBalancedSpan(stripCodeBlocks(trim(rawText)))

\* the action a payload denotes: the text parsed directly, then the defaults
DirectAction(payload, previewLimit, dbType) ==
    backfillDefaults(JSONparse(payload).v, previewLimit, dbType)
\* the payload is a valid JSON action object
ValidAction(payload, dbType) ==
    /\ JSONparse(payload).ok
    /\ DirectAction(payload, 0, dbType).state = "returned"

\* C22: a valid action object wrapped in code-fence markers and carrying a
\* trailing comma before a closing brace or bracket normalizes to the action
\* of the unwrapped, comma-free object.
C22_FencedTrailingComma ==
    (/\ written.wrapping \in {"fenced-comma", "fenced-commas"}
     /\ ValidAction(written.payload, written.dbType)) =>
        normalized = DirectAction(written.payload, written.previewLimit, written.dbType)

\* C30: for every raw text that is already a valid JSON action object, the
\* normalizer returns the action that parsing the text directly, then
\* backfilling defaults, returns.
C30_RepairKeepsWellFormed ==
    (/\ written.wrapping = "plain"
     /\ ValidAction(rawText, written.dbType)) =>
        normalized = DirectAction(rawText, written.previewLimit, written.dbType)

====
